---------------------------- MODULE Spec2Model ----------------------------
(***************************************************************************)
(* A model of the VextLang language front end: the lexer, the recursive-  *)
(* descent parser, the two-pass semantic analyzer and the type checker.    *)
(* Source text is a sequence of one-character strings; offsets are         *)
(* 0-based as in the source, so source[current] of the code is             *)
(* source[current + 1] here.                                               *)
(***************************************************************************)
EXTENDS Integers, Sequences, FiniteSets, TLC

VARIABLES
    lexer,      \* the Lexer object: source, current, line, column, errors
    lxTokens,   \* tokenize: the local token list
    lxLast,     \* tokenize: the token nextToken returned last
    lxPc,       \* tokenize: "loop" | "done" | "idle"
    parser,     \* the Parser object: tokens, current, errors
    pSource,    \* parse: the source text of the call in progress or made last
    pAst,       \* parse: the local ast list
    pPc,        \* parse: "idle" | "loop" | "returned" | "thrown"
    pCaught,    \* parse: the exception the catch of the loop caught last
    pRecursed,  \* parse: parsePrimary calls re-entered with no token consumed
    pRef,       \* the first parse call completed: its source and its result
    analyzer,   \* the SemanticAnalyzer object, its TypeChecker included
    aUri,       \* analyze: the uri of the document
    aPc,        \* analyze: "idle" | "parse" | "collect" | "check" | "done"
    aIndex,     \* analyze: the index of the next node of the first pass
    aResult,    \* the diagnostics analyze returned last
    aFresh,     \* the diagnostics a new SemanticAnalyzer returns for the same call
    aRuns,      \* the number of documents validated
    symbolTable, \* the SymbolTable object of the server: symbols, globalSymbols
    documents,  \* the open documents of the server: uri and text, in order
    sPc,        \* the server: "start" | "listening"
    sReply,     \* what the handler that ran last sent to the client
    sPending,   \* the validateTextDocument invocations suspended at their await
    fArgs,      \* a function called on its own: the arguments of the call
    fResult,    \* a function called on its own: what the call returned
    fPc,        \* a function called on its own: "idle" | "called" | "returned"
    dSession,   \* the VextLangDebugSession object: its _debugProcess
    dProcesses, \* the processes the session spawned: state and stdin
    dSent       \* what the debug request handled last sent to the client

lexVars == <<lexer, lxTokens, lxLast, lxPc>>

parVars == <<parser, pSource, pAst, pPc, pCaught, pRecursed, pRef>>

anaVars == <<analyzer, aUri, aPc, aIndex, aResult, aFresh, aRuns>>

srvVars == <<symbolTable, documents, sPc, sReply, sPending>>

fnVars == <<fArgs, fResult, fPc>>

dbgVars == <<dSession, dProcesses, dSent>>

vars == <<lexer, lxTokens, lxLast, lxPc,
          parser, pSource, pAst, pPc, pCaught, pRecursed, pRef,
          analyzer, aUri, aPc, aIndex, aResult, aFresh, aRuns,
          symbolTable, documents, sPc, sReply, sPending,
          fArgs, fResult, fPc, dSession, dProcesses, dSent>>

-----------------------------------------------------------------------------
(* Bounds of the model *)

\* the longest source text enumerated character by character
MaxSrcLen == 4

\* the most lexemes in a source text enumerated lexeme by lexeme
MaxLexemes == 2

-----------------------------------------------------------------------------
(* Characters *)

WhitespaceChars == {" ", "\t", "\r", "\n"}

DigitChars == {"0", "1", "2", "3", "4", "5", "6", "7", "8", "9"}

LowerChars ==
    {"a", "b", "c", "d", "e", "f", "g", "h", "i", "j", "k", "l", "m",
     "n", "o", "p", "q", "r", "s", "t", "u", "v", "w", "x", "y", "z"}

UpperChars ==
    {"A", "B", "C", "D", "E", "F", "G", "H", "I", "J", "K", "L", "M",
     "N", "O", "P", "Q", "R", "S", "T", "U", "V", "W", "X", "Y", "Z"}

isWhitespace(char) == char \in WhitespaceChars

isDigit(char) == char \in DigitChars

isIdentifierStart(char) == char \in LowerChars \cup UpperChars \cup {"_"}

isIdentifierPart(char) == isIdentifierStart(char) \/ isDigit(char)

-----------------------------------------------------------------------------
(* Lexer *)

NewLexer(source) ==
    [source |-> source, current |-> 0, line |-> 1, column |-> 1, errors |-> <<>>]

\* source[current] of the code; only read where current < source.length
CharAt(L) == L.source[L.current + 1]

LexAdvance(L) ==
    IF L.current < Len(L.source)
    THEN IF CharAt(L) = "\n"
         THEN [L EXCEPT !.line = @ + 1, !.column = 1, !.current = @ + 1]
         ELSE [L EXCEPT !.column = @ + 1, !.current = @ + 1]
    ELSE L

\* the NUL character peek returns past the end of the source
NulChar == "\\0"

LexPeek(L, offset) ==
    IF L.current + offset < Len(L.source)
    THEN L.source[L.current + offset + 1]
    ELSE NulChar

createToken(L, type, value) ==
    [type |-> type, value |-> value, line |-> L.line,
     column |-> L.column - Len(value), offset |-> L.current - Len(value)]

LexAddError(L, message) ==
    [L EXCEPT !.errors = Append(@, [message |-> message, line |-> L.line,
                                    column |-> L.column, offset |-> L.current])]

\* source.substring(start, current) and source.substring(start)
Substring(L, start) == SubSeq(L.source, start + 1, L.current)

SubstringToEnd(L, start) == SubSeq(L.source, start + 1, Len(L.source))

RECURSIVE skipWhitespace(_)
skipWhitespace(L) ==
    IF L.current < Len(L.source) /\ isWhitespace(CharAt(L))
    THEN skipWhitespace(LexAdvance(L))
    ELSE L

RECURSIVE SkipToNewline(_)
SkipToNewline(L) ==
    IF L.current < Len(L.source) /\ CharAt(L) # "\n"
    THEN SkipToNewline(LexAdvance(L))
    ELSE L

lexLineComment(L) ==
    LET start == L.current
        L2 == SkipToNewline(LexAdvance(LexAdvance(L)))
    IN  [lexer |-> L2, token |-> createToken(L2, "line_comment", Substring(L2, start))]

\* the loop of lexBlockComment; the result is <<lexer, depth>>
RECURSIVE BlockCommentLoop(_, _)
BlockCommentLoop(L, depth) ==
    IF L.current < Len(L.source) /\ depth > 0
    THEN IF CharAt(L) = "/" /\ LexPeek(L, 1) = "*"
         THEN BlockCommentLoop(LexAdvance(LexAdvance(L)), depth + 1)
         ELSE IF CharAt(L) = "*" /\ LexPeek(L, 1) = "/"
              THEN BlockCommentLoop(LexAdvance(LexAdvance(L)), depth - 1)
              ELSE BlockCommentLoop(LexAdvance(L), depth)
    ELSE <<L, depth>>

lexBlockComment(L) ==
    LET start == L.current
        r == BlockCommentLoop(LexAdvance(LexAdvance(L)), 1)
        L2 == IF r[2] > 0 THEN LexAddError(r[1], "Unterminated block comment") ELSE r[1]
    IN  [lexer |-> L2, token |-> createToken(L2, "block_comment", Substring(L2, start))]

RECURSIVE StringBodyLoop(_)
StringBodyLoop(L) ==
    IF L.current < Len(L.source) /\ CharAt(L) # "\""
    THEN IF CharAt(L) = "\\"
         THEN LET L1 == LexAdvance(L)
              IN  StringBodyLoop(IF L1.current < Len(L1.source) THEN LexAdvance(L1) ELSE L1)
         ELSE StringBodyLoop(LexAdvance(L))
    ELSE L

\* a string literal whose unterminated text is emitted as a string token
lexStringLiteralPartialKept(L) ==
    LET start == L.current
        L1 == StringBodyLoop(LexAdvance(L))
    IN  IF L1.current >= Len(L1.source)
        THEN LET L2 == LexAddError(L1, "Unterminated string literal")
             IN  [lexer |-> L2,
                  token |-> createToken(L2, "string_literal", SubstringToEnd(L2, start))]
        ELSE LET L2 == LexAdvance(L1)
             IN  [lexer |-> L2, token |-> createToken(L2, "string_literal", Substring(L2, start))]

lexStringLiteral(L) ==
    LET start == L.current
        L1 == StringBodyLoop(LexAdvance(L))
    IN  IF L1.current >= Len(L1.source)
        THEN LET L2 == LexAddError(L1, "Unterminated string literal")
             IN  [lexer |-> L2, token |-> createToken(L2, "error", SubstringToEnd(L2, start))]
        ELSE LET L2 == LexAdvance(L1)
             IN  [lexer |-> L2, token |-> createToken(L2, "string_literal", Substring(L2, start))]

lexCharLiteral(L) ==
    LET start == L.current
        L0 == LexAdvance(L)
        L1 == IF L0.current < Len(L0.source) /\ CharAt(L0) = "\\"
              THEN LET La == LexAdvance(L0)
                   IN  IF La.current < Len(La.source) THEN LexAdvance(La) ELSE La
              ELSE IF L0.current < Len(L0.source) THEN LexAdvance(L0) ELSE L0
    IN  IF L1.current >= Len(L1.source) \/ CharAt(L1) # "'"
        THEN LET L2 == LexAddError(L1, "Unterminated character literal")
             IN  [lexer |-> L2, token |-> createToken(L2, "error", SubstringToEnd(L2, start))]
        ELSE LET L2 == LexAdvance(L1)
             IN  [lexer |-> L2, token |-> createToken(L2, "char_literal", Substring(L2, start))]

RECURSIVE SkipDigits(_)
SkipDigits(L) ==
    IF L.current < Len(L.source) /\ isDigit(CharAt(L))
    THEN SkipDigits(LexAdvance(L))
    ELSE L

lexNumber(L) ==
    LET start == L.current
        L1 == SkipDigits(L)
        hasFraction == L1.current < Len(L1.source) /\ CharAt(L1) = "."
        L2 == IF hasFraction THEN SkipDigits(LexAdvance(L1)) ELSE L1
        hasExponent == L2.current < Len(L2.source) /\ CharAt(L2) \in {"e", "E"}
        L3 == IF hasExponent
              THEN LET La == LexAdvance(L2)
                       Lb == IF La.current < Len(La.source) /\ CharAt(La) \in {"+", "-"}
                             THEN LexAdvance(La) ELSE La
                   IN  SkipDigits(Lb)
              ELSE L2
        isFloat == hasFraction \/ hasExponent
    IN  [lexer |-> L3,
         token |-> createToken(L3, IF isFloat THEN "float_literal" ELSE "integer_literal",
                               Substring(L3, start))]

\* the keyword table of getKeywordType: the words whose token type is the
\* word itself, and the two boolean literals
KeywordWords ==
    { <<"f","n">>, <<"l","e","t">>, <<"c","o","n","s","t">>,
      <<"s","t","r","u","c","t">>, <<"e","n","u","m">>, <<"i","f">>,
      <<"e","l","s","e">>, <<"f","o","r">>, <<"w","h","i","l","e">>,
      <<"b","r","e","a","k">>, <<"c","o","n","t","i","n","u","e">>,
      <<"r","e","t","u","r","n">>, <<"m","a","t","c","h">>,
      <<"w","h","e","r","e">>, <<"a","s","y","n","c">>, <<"a","w","a","i","t">>,
      <<"t","r","a","i","t">>, <<"i","m","p","l">>, <<"i","m","p","o","r","t">>,
      <<"p","a","c","k","a","g","e">>, <<"m","o","d">>, <<"i","n","t">>,
      <<"f","l","o","a","t">>, <<"b","o","o","l">>, <<"s","t","r","i","n","g">>,
      <<"c","h","a","r">>, <<"v","o","i","d">>, <<"O","p","t","i","o","n">>,
      <<"R","e","s","u","l","t">>, <<"V","e","c">>  }

BooleanWords == { <<"t","r","u","e">>, <<"f","a","l","s","e">> }

\* a token type is a string; the type of a keyword is the keyword's text
RECURSIVE Text(_)
Text(chars) == IF chars = <<>> THEN "" ELSE Head(chars) \o Text(Tail(chars))

getKeywordType(value) ==
    IF value \in KeywordWords THEN Text(value)
    ELSE IF value \in BooleanWords THEN "boolean_literal"
    ELSE "identifier"

RECURSIVE SkipIdentifierPart(_)
SkipIdentifierPart(L) ==
    IF L.current < Len(L.source) /\ isIdentifierPart(CharAt(L))
    THEN SkipIdentifierPart(LexAdvance(L))
    ELSE L

lexIdentifier(L) ==
    LET start == L.current
        L1 == SkipIdentifierPart(L)
        value == Substring(L1, start)
    IN  [lexer |-> L1, token |-> createToken(L1, getKeywordType(value), value)]

\* the two-character operators, in the order the code tests them
TwoCharOperators ==
    { <<"=","=">>, <<"!","=">>, <<"<","=">>, <<">","=">>, <<"&","&">>,
      <<"|","|">>, <<"+","=">>, <<"-","=">>, <<"*","=">>, <<"/","=">>,
      <<"%","=">>, <<"-",">">>, <<":",":">> }

singleCharTokens ==
    {"+", "-", "*", "/", "%", "=", "<", ">", "!", "(", ")", "{", "}",
     "[", "]", ";", ",", ":", ".", "?"}

Advance2(L) == LexAdvance(LexAdvance(L))

\* an unknown character that is reported but left in front of the scan
lexUnknownCharacterNoAdvance(L) ==
    LET L1 == LexAddError(L, "Unexpected character: " \o CharAt(L))
    IN  [lexer |-> L1, token |-> createToken(L1, "error", <<CharAt(L)>>)]

\* the last branch of lexOperatorOrDelimiter: an unknown character is
\* reported, skipped and returned as an error token
lexUnknownCharacter(L) ==
    LET L1 == LexAdvance(LexAddError(L, "Unexpected character: " \o CharAt(L)))
    IN  [lexer |-> L1, token |-> createToken(L1, "error", <<CharAt(L)>>)]

lexOperatorOrDelimiter(L) ==
    LET char == CharAt(L)
        nextChar == LexPeek(L, 1)
        nextNextChar == LexPeek(L, 2)
    IN  IF char = "<" /\ nextChar = "<" /\ nextNextChar = "="
        THEN LET L3 == LexAdvance(Advance2(L))
             IN  [lexer |-> L3, token |-> createToken(L3, "error", <<"<", "<", "=">>)]
        ELSE IF <<char, nextChar>> \in TwoCharOperators
        THEN LET L2 == Advance2(L)
             IN  [lexer |-> L2,
                  token |-> createToken(L2, char \o nextChar, <<char, nextChar>>)]
        ELSE IF char \in singleCharTokens
        THEN LET L1 == LexAdvance(L)
             IN  [lexer |-> L1, token |-> createToken(L1, char, <<char>>)]
        ELSE lexUnknownCharacter(L)

nextToken(L0) ==
    LET L == skipWhitespace(L0)
    IN  IF L.current >= Len(L.source)
        THEN [lexer |-> L, token |-> createToken(L, "eof", <<>>)]
        ELSE LET char == CharAt(L)
             IN  IF char = "/" /\ LexPeek(L, 1) = "/" THEN lexLineComment(L)
                 ELSE IF char = "/" /\ LexPeek(L, 1) = "*" THEN lexBlockComment(L)
                 ELSE IF char = "\"" THEN lexStringLiteral(L)
                 ELSE IF char = "'" THEN lexCharLiteral(L)
                 ELSE IF isDigit(char) THEN lexNumber(L)
                 ELSE IF isIdentifierStart(char) THEN lexIdentifier(L)
                 ELSE lexOperatorOrDelimiter(L)

NoToken == [type |-> "none", value |-> <<>>, line |-> 0, column |-> 0, offset |-> 0]

\* whether tokenize pushes the token nextToken returned
TokenKept(token) == token.type # "error"

\* tokenize: the condition of its while loop
TokenizeContinues(L) == L.current < Len(L.source)

\* tokenize as a whole: the loop run to its end; <<tokens, errors>>
RECURSIVE TokenizeLoop(_, _)
TokenizeLoop(L, tokens) ==
    IF TokenizeContinues(L)
    THEN LET r == nextToken(L)
             tokens2 == IF TokenKept(r.token) THEN Append(tokens, r.token) ELSE tokens
         IN  IF r.token.type = "eof"
             THEN [tokens |-> tokens2, errors |-> r.lexer.errors]
             ELSE TokenizeLoop(r.lexer, tokens2)
    ELSE [tokens |-> tokens, errors |-> L.errors]

tokenize(source) == TokenizeLoop(NewLexer(source), <<>>)

-----------------------------------------------------------------------------
(* Parser: token cursor helpers                                            *)
(*                                                                         *)
(* A parser state is the record of the Parser object's fields (tokens,     *)
(* current, errors) together with the exception in flight, if any:         *)
(* thrown is "none", "TypeError" (a property of the undefined value        *)
(* tokens[current] was read) or "RangeError" (the call stack overflowed).  *)
(* Once thrown is set every helper leaves the state alone, which is how    *)
(* the exception unwinds to the try/catch of parse.                        *)
(* recursed counts the parsePrimary calls that re-entered parsePrimary     *)
(* with no token consumed.                                                 *)

\* the number of nested parsePrimary frames the engine's call stack holds
\* before it raises RangeError (counted on the token-free recursion only)
StackLimit == 3

NoNode == [type |-> "none"]

NoExpr ==
    [type |-> "none", kind |-> "none", value |-> <<>>,
     range |-> [start |-> 0, end |-> 0], line |-> 0, column |-> 0]

\* an optional list field of a node: undefined, or a (possibly empty) list
NoList == [defined |-> FALSE, items |-> <<>>]

SomeList(items) == [defined |-> TRUE, items |-> items]

NewParserState(tokens, errors) ==
    [tokens |-> tokens, current |-> 0, errors |-> errors,
     thrown |-> "none", recursed |-> 0]

Throw(S, kind) == [S EXCEPT !.thrown = kind]

\* whether tokens[current] is a token (it is undefined past the last token)
PeekDefined(S) == S.current < Len(S.tokens)

peek(S) == S.tokens[S.current + 1]

previous(S) ==
    IF S.current >= 1 /\ S.current <= Len(S.tokens) THEN S.tokens[S.current] ELSE NoToken

\* isAtEnd reads peek().type: only evaluated where PeekDefined
isAtEnd(S) == peek(S).type = "eof"

\* the offset just past the token consumed last
PreviousEnd(S) == previous(S).offset + Len(previous(S).value)

check(S, type) ==
    IF S.thrown # "none" THEN [s |-> S, ok |-> FALSE]
    ELSE IF ~PeekDefined(S) THEN [s |-> Throw(S, "TypeError"), ok |-> FALSE]
    ELSE [s |-> S, ok |-> ~isAtEnd(S) /\ peek(S).type = type]

advance(S) ==
    IF S.thrown # "none" THEN S
    ELSE IF ~PeekDefined(S) THEN Throw(S, "TypeError")
    ELSE IF isAtEnd(S) THEN S
    ELSE [S EXCEPT !.current = @ + 1]

\* match(...types): the types are tested in order and at most one equals the
\* type of the next token
match(S, types) ==
    IF S.thrown # "none" THEN [s |-> S, ok |-> FALSE]
    ELSE IF ~PeekDefined(S) THEN [s |-> Throw(S, "TypeError"), ok |-> FALSE]
    ELSE IF ~isAtEnd(S) /\ peek(S).type \in types
    THEN [s |-> advance(S), ok |-> TRUE]
    ELSE [s |-> S, ok |-> FALSE]

ParseErrorAt(message, token) ==
    [message |-> message, line |-> token.line, column |-> token.column,
     offset |-> token.offset, token |-> token]

error(S, message) ==
    IF S.thrown # "none" THEN S
    ELSE IF ~PeekDefined(S) THEN Throw(S, "TypeError")
    ELSE [S EXCEPT !.errors = Append(@, ParseErrorAt(message, peek(S)))]

expect(S, type) ==
    LET c == check(S, type)
    IN  IF c.s.thrown # "none" THEN [s |-> c.s, token |-> NoToken]
        ELSE IF c.ok THEN LET a == advance(S) IN [s |-> a, token |-> previous(a)]
        ELSE [s |-> error(S, "Expected " \o type \o ", got " \o peek(S).type),
              token |-> peek(S)]

expectIdentifier(S) ==
    LET e == expect(S, "identifier") IN [s |-> e.s, value |-> e.token.value]

expectSemicolon(S) ==
    LET c == check(S, ";")
    IN  IF c.s.thrown # "none" THEN c.s
        ELSE IF c.ok THEN advance(S)
        ELSE error(S, "Expected semicolon")

-----------------------------------------------------------------------------
(* Parser: expressions.  Every parse function takes the parser state and   *)
(* returns [s |-> the state after it, node |-> the node it built].         *)

RECURSIVE Invoke(_, _, _)
RECURSIVE parseTopLevel(_)
RECURSIVE parseBlock(_)
RECURSIVE BlockLoop(_, _)
RECURSIVE parseExpression(_)
RECURSIVE parseAssignment(_)
RECURSIVE parseBinary(_, _)
RECURSIVE BinaryLoop(_, _, _)
RECURSIVE Climb(_, _, _)
RECURSIVE parseUnary(_)
RECURSIVE parseCall(_)
RECURSIVE CallLoop(_, _)
RECURSIVE finishCall(_, _)
RECURSIVE ExpressionListLoop(_, _)
RECURSIVE parsePrimary(_)
RECURSIVE parseArrayLiteral(_)
RECURSIVE parseBlockExpression(_)
RECURSIVE parseTypeExpression(_)
RECURSIVE TypeArgumentLoop(_, _)
RECURSIVE parseFunctionDeclaration(_)
RECURSIVE parseTraitMethods(_, _)
RECURSIVE MatchCaseLoop(_, _)

AssignmentOperators == {"=", "+=", "-=", "*=", "/=", "%="}

\* the binary levels of the precedence ladder, loosest first:
\* parseOr, parseAnd, parseEquality, parseComparison, parseTerm, parseFactor
LevelOperators(level) ==
    CASE level = 1 -> {"||"}
      [] level = 2 -> {"&&"}
      [] level = 3 -> {"==", "!="}
      [] level = 4 -> {"<", "<=", ">", ">="}
      [] level = 5 -> {"+", "-"}
      [] level = 6 -> {"*", "/", "%"}

BinaryLevels == 6

BinaryNode(operator, left, right) ==
    [type |-> "expression", kind |-> "binary", operator |-> operator,
     left |-> left, right |-> right,
     range |-> [start |-> left.range.start, end |-> right.range.end],
     line |-> left.line, column |-> left.column]

parseExpression(S) == parseAssignment(S)

\* a parseAssignment that parses its right-hand side with parseOr
parseAssignmentOnce(S) ==
    LET Rest(e) ==
            LET m == match(e.s, AssignmentOperators)
                Assigned(v) ==
                    IF v.s.thrown # "none" THEN v
                    ELSE [s |-> v.s,
                          node |-> BinaryNode(previous(m.s).value, e.node, v.node)]
            IN  IF e.s.thrown # "none" THEN e
                ELSE IF m.ok THEN Assigned(parseBinary(1, m.s))
                ELSE [s |-> m.s, node |-> e.node]
    IN  Rest(parseBinary(1, S))

parseAssignment(S) ==
    LET Rest(e) ==
            LET m == match(e.s, AssignmentOperators)
                Assigned(v) ==
                    IF v.s.thrown # "none" THEN v
                    ELSE [s |-> v.s,
                          node |-> BinaryNode(previous(m.s).value, e.node, v.node)]
            IN  IF e.s.thrown # "none" THEN e
                ELSE IF m.ok THEN Assigned(parseAssignment(m.s))
                ELSE [s |-> m.s, node |-> e.node]
    IN  Rest(parseBinary(1, S))

\* one level of the ladder: an operand of the next level, then the loop.
\* Every level starts by calling the next one, so the descent from any level
\* reaches parseUnary before a loop runs
parseBinary(level, S) == Climb(BinaryLevels, level, parseUnary(S))

\* the way back up: r is the result of level k + 1, and the loops of the
\* levels k down to `level` run on it in turn; a throw passes through all
Climb(k, level, r) ==
    IF r.s.thrown # "none" \/ k < level THEN r
    ELSE Climb(k - 1, level, BinaryLoop(k, r.s, r.node))

\* while (match(operators of the level)) expr = binary(expr, next level)
BinaryLoop(level, S, expr) ==
    LET m == match(S, LevelOperators(level))
        Rest(r) ==
            IF r.s.thrown # "none" THEN r
            ELSE BinaryLoop(level, r.s,
                            BinaryNode(previous(m.s).value, expr, r.node))
    IN  IF m.ok THEN Rest(parseBinary(level + 1, m.s))
        ELSE [s |-> m.s, node |-> expr]

\* the range, line and column of a unary node are read from previous()
\* after the operand was parsed
parseUnary(S) ==
    LET m == match(S, {"!", "-"})
        Rest(r) ==
            IF r.s.thrown # "none" THEN r
            ELSE [s |-> r.s,
                  node |-> [type |-> "expression", kind |-> "unary",
                            operator |-> previous(m.s).value, right |-> r.node,
                            range |-> [start |-> previous(r.s).offset,
                                       end |-> r.node.range.end],
                            line |-> previous(r.s).line,
                            column |-> previous(r.s).column]]
    IN  IF m.ok THEN Rest(parseUnary(m.s))
        ELSE IF m.s.thrown # "none" THEN [s |-> m.s, node |-> NoExpr]
        ELSE parseCall(S)

parseCall(S) ==
    LET Rest(p) == IF p.s.thrown # "none" THEN p ELSE CallLoop(p.s, p.node)
    IN  Rest(parsePrimary(S))

\* while (true): a call, a member access or an index access, else break
CallLoop(S, expr) ==
    LET m1 == match(S, {"("})
        m2 == match(m1.s, {"."})
        m3 == match(m2.s, {"["})
        Called(c) == IF c.s.thrown # "none" THEN c ELSE CallLoop(c.s, c.node)
        Member(name) ==
            IF name.s.thrown # "none" THEN [s |-> name.s, node |-> NoExpr]
            ELSE CallLoop(name.s,
                     [type |-> "expression", kind |-> "member_access",
                      left |-> expr, value |-> name.value,
                      range |-> [start |-> expr.range.start, end |-> PreviousEnd(name.s)],
                      line |-> expr.line, column |-> expr.column])
        Closed(index, e) ==
            IF e.s.thrown # "none" THEN [s |-> e.s, node |-> NoExpr]
            ELSE CallLoop(e.s,
                     [type |-> "expression", kind |-> "index_access",
                      left |-> expr, right |-> index.node,
                      range |-> [start |-> expr.range.start, end |-> PreviousEnd(e.s)],
                      line |-> expr.line, column |-> expr.column])
        Indexed(index) ==
            IF index.s.thrown # "none" THEN index
            ELSE Closed(index, expect(index.s, "]"))
    IN  IF m1.ok THEN Called(finishCall(m1.s, expr))
        ELSE IF m2.ok THEN Member(expectIdentifier(m2.s))
        ELSE IF m3.ok THEN Indexed(parseExpression(m3.s))
        ELSE [s |-> m3.s, node |-> expr]

\* do { items.push(parseExpression()) } while (match(COMMA))
ExpressionListLoop(S, items) ==
    LET Rest(r) ==
            LET m == match(r.s, {","})
            IN  IF r.s.thrown # "none" THEN [s |-> r.s, items |-> items]
                ELSE IF m.ok THEN ExpressionListLoop(m.s, Append(items, r.node))
                ELSE [s |-> m.s, items |-> Append(items, r.node)]
    IN  Rest(parseExpression(S))

\* the list between an opening token already consumed and the closing one
ExpressionList(S, closing) ==
    LET c == check(S, closing)
    IN  IF c.ok \/ c.s.thrown # "none" THEN [s |-> c.s, items |-> <<>>]
        ELSE ExpressionListLoop(S, <<>>)

finishCall(S, callee) ==
    LET Closed(args, e) ==
            [s |-> e.s,
             node |-> [type |-> "expression", kind |-> "call", left |-> callee,
                       value |-> args.items,
                       range |-> [start |-> callee.range.start, end |-> PreviousEnd(e.s)],
                       line |-> callee.line, column |-> callee.column]]
        Rest(args) ==
            IF args.s.thrown # "none" THEN [s |-> args.s, node |-> NoExpr]
            ELSE Closed(args, expect(args.s, ")"))
    IN  Rest(ExpressionList(S, ")"))

LiteralTokenTypes ==
    {"boolean_literal", "integer_literal", "float_literal", "string_literal",
     "char_literal"}

TokenNode(kind, token) ==
    [type |-> "expression", kind |-> kind, value |-> token.value,
     range |-> [start |-> token.offset, end |-> token.offset + Len(token.value)],
     line |-> token.line, column |-> token.column]

\* the last two lines of parsePrimary: error('Expected expression') and the
\* recursive call, which starts at the same token; the recursion goes on,
\* one diagnostic a frame, until the call stack is exhausted
RECURSIVE PrimaryRecursion(_, _)
PrimaryRecursion(S, frames) ==
    IF S.thrown # "none" THEN S
    ELSE IF frames >= StackLimit THEN Throw(S, "RangeError")
    ELSE PrimaryRecursion(
             [error(S, "Expected expression") EXCEPT !.recursed = @ + 1], frames + 1)

parsePrimaryFallback(S) == [s |-> PrimaryRecursion(S, 0), node |-> NoExpr]

parsePrimary(S) ==
    LET m1 == match(S, LiteralTokenTypes)
        m2 == match(m1.s, {"identifier"})
        m3 == match(m2.s, {"("})
        m4 == match(m3.s, {"["})
        m5 == match(m4.s, {"{"})
        Closed(expr, e) ==
            [s |-> e.s,
             node |-> [type |-> "expression", kind |-> "parenthesized",
                       value |-> expr.node,
                       range |-> [start |-> expr.node.range.start,
                                  end |-> PreviousEnd(e.s)],
                       line |-> expr.node.line, column |-> expr.node.column]]
        Parenthesized(expr) ==
            IF expr.s.thrown # "none" THEN expr
            ELSE Closed(expr, expect(expr.s, ")"))
    IN  CASE m1.ok -> [s |-> m1.s, node |-> TokenNode("literal", previous(m1.s))]
          [] m2.ok -> [s |-> m2.s, node |-> TokenNode("identifier", previous(m2.s))]
          [] m3.ok -> Parenthesized(parseExpression(m3.s))
          [] m4.ok -> parseArrayLiteral(m4.s)
          [] m5.ok -> parseBlockExpression(m5.s)
          [] m5.s.thrown # "none" -> [s |-> m5.s, node |-> NoExpr]
          [] OTHER -> parsePrimaryFallback(S)

parseArrayLiteral(S) ==
    LET startToken == previous(S)
        Closed(elements, e) ==
            [s |-> e.s,
             node |-> [type |-> "expression", kind |-> "array",
                       value |-> elements.items,
                       range |-> [start |-> startToken.offset, end |-> PreviousEnd(e.s)],
                       line |-> startToken.line, column |-> startToken.column]]
        Rest(elements) ==
            IF elements.s.thrown # "none" THEN [s |-> elements.s, node |-> NoExpr]
            ELSE Closed(elements, expect(elements.s, "]"))
    IN  Rest(ExpressionList(S, "]"))

\* a block expression does not consume its closing brace
parseBlockExpression(S) ==
    LET startToken == previous(S)
        Rest(statements) ==
            IF statements.s.thrown # "none"
            THEN [s |-> statements.s, node |-> NoExpr]
            ELSE [s |-> statements.s,
                  node |-> [type |-> "expression", kind |-> "block",
                            value |-> statements.items,
                            range |-> [start |-> startToken.offset,
                                       end |-> PreviousEnd(statements.s)],
                            line |-> startToken.line, column |-> startToken.column]]
    IN  Rest(parseBlock(S))

\* while (!check(RIGHT_BRACE) && !isAtEnd()) statements.push(parseTopLevel())
BlockLoop(S, statements) ==
    LET c == check(S, "}")
        Rest(stmt) ==
            IF stmt.s.thrown # "none" THEN [s |-> stmt.s, items |-> statements]
            ELSE BlockLoop(stmt.s, Append(statements, stmt.node))
    IN  IF c.s.thrown # "none" \/ c.ok THEN [s |-> c.s, items |-> statements]
        ELSE IF isAtEnd(S) THEN [s |-> S, items |-> statements]
        ELSE Rest(parseTopLevel(S))

parseBlock(S) == BlockLoop(S, <<>>)

-----------------------------------------------------------------------------
(* Parser: types, declarations and statements *)

\* the offset just past the token consumed last, as every declaration and
\* statement node computes the end of its range
NodeEnd(S) == PreviousEnd(S)

TypeArgumentLoop(S, args) ==
    LET r == Invoke("parseTypeExpression", S, <<>>)
        m == Invoke("match", r.s, {","})
    IN  IF m.ok THEN Invoke("TypeArgumentLoop", m.s, Append(args, r.node))
        ELSE [s |-> m.s, items |-> Append(args, r.node)]

\* the base name is read with expectIdentifier, i.e. expect(IDENTIFIER)
parseTypeExpression(S) ==
    LET startToken == IF PeekDefined(S) THEN peek(S) ELSE NoToken
        amp == Invoke("match", S, {"&&"})
        mut == IF amp.ok THEN Invoke("match", amp.s, {"identifier"}) ELSE [s |-> amp.s, ok |-> FALSE]
        isMutable == mut.ok /\ previous(mut.s).value = <<"m", "u", "t">>
        base == Invoke("expectIdentifier", mut.s, <<>>)
        lt == Invoke("match", base.s, {"<"})
        c == Invoke("check", lt.s, ">")
        args == IF ~lt.ok THEN [s |-> lt.s, items |-> <<>>]
                ELSE IF c.ok \/ c.s.thrown # "none" THEN [s |-> c.s, items |-> <<>>]
                ELSE Invoke("TypeArgumentLoop", lt.s, <<>>)
        last == IF lt.ok THEN Invoke("expect", args.s, ">").s ELSE args.s
    IN  [s |-> last,
         node |-> [type |-> "type_expression", baseType |-> base.value,
                   genericArgs |-> IF lt.ok THEN SomeList(args.items) ELSE NoList,
                   isReference |-> amp.ok, isMutable |-> isMutable,
                   range |-> [start |-> startToken.offset, end |-> NodeEnd(last)],
                   line |-> startToken.line, column |-> startToken.column]]

RECURSIVE TypeParameterLoop(_, _)
TypeParameterLoop(S, parameters) ==
    LET name == Invoke("expectIdentifier", S, <<>>)
        colon == Invoke("match", name.s, {":"})
        constraint == IF colon.ok THEN Invoke("parseTypeExpression", colon.s, <<>>)
                      ELSE [s |-> colon.s, node |-> NoNode]
        m == Invoke("match", constraint.s, {","})
        parameter == [name |-> name.value, constraint |-> constraint.node]
    IN  IF m.ok THEN Invoke("TypeParameterLoop", m.s, Append(parameters, parameter))
        ELSE [s |-> m.s, items |-> Append(parameters, parameter)]

parseTypeParameters(S) == Invoke("TypeParameterLoop", S, <<>>)

\* the optional <generics> of a struct, enum or trait
OptionalGenerics(S) ==
    LET lt == Invoke("match", S, {"<"})
        g == Invoke("parseTypeParameters", lt.s, <<>>)
    IN  IF lt.ok THEN [s |-> Invoke("expect", g.s, ">").s, generics |-> SomeList(g.items)]
        ELSE [s |-> lt.s, generics |-> NoList]

\* one "name: type" of a parameter or field list
NameAndType(S) ==
    LET name == Invoke("expectIdentifier", S, <<>>)
        colon == Invoke("expect", name.s, ":")
        type == Invoke("parseTypeExpression", colon.s, <<>>)
    IN  [s |-> type.s, item |-> [name |-> name.value, type |-> type.node]]

\* do { name: type } while (match(COMMA))
RECURSIVE NameAndTypeDoLoop(_, _)
NameAndTypeDoLoop(S, items) ==
    LET r == Invoke("NameAndType", S, <<>>)
        m == Invoke("match", r.s, {","})
    IN  IF m.ok THEN Invoke("NameAndTypeDoLoop", m.s, Append(items, r.item))
        ELSE [s |-> m.s, items |-> Append(items, r.item)]

\* ( [name: type {, name: type}] with the opening parenthesis consumed
ParenthesizedFields(S) ==
    LET c == Invoke("check", S, ")")
    IN  IF c.ok \/ c.s.thrown # "none" THEN [s |-> c.s, items |-> <<>>]
        ELSE Invoke("NameAndTypeDoLoop", S, <<>>)

parseFunctionDeclaration(S) ==
    LET s1 == Invoke("advance", S, <<>>)
        startToken == previous(s1)
        async == Invoke("check", s1, "async")
        s2 == IF async.ok THEN Invoke("advance", s1, <<>>) ELSE async.s
        name == Invoke("expectIdentifier", s2, <<>>)
        s3 == Invoke("expect", name.s, "(").s
        parameters == Invoke("ParenthesizedFields", s3, <<>>)
        s4 == Invoke("expect", parameters.s, ")").s
        arrow == Invoke("match", s4, {"->"})
        returnType == IF arrow.ok THEN Invoke("parseTypeExpression", arrow.s, <<>>)
                      ELSE [s |-> arrow.s, node |-> NoNode]
        s5 == Invoke("expect", returnType.s, "{").s
        body == Invoke("parseBlock", s5, <<>>)
        s6 == Invoke("expect", body.s, "}").s
    IN  [s |-> s6,
         node |-> [type |-> "function", name |-> name.value,
                   parameters |-> parameters.items, returnType |-> returnType.node,
                   body |-> body.items, isAsync |-> async.ok,
                   range |-> [start |-> startToken.offset, end |-> NodeEnd(s6)],
                   line |-> startToken.line, column |-> startToken.column]]

\* while (!check(RIGHT_BRACE) && !isAtEnd()) { name: type; if (!match(COMMA)) break }
RECURSIVE StructFieldLoop(_, _)
StructFieldLoop(S, fields) ==
    LET c == Invoke("check", S, "}")
    IN  IF c.s.thrown # "none" \/ c.ok THEN [s |-> c.s, items |-> fields]
        ELSE IF isAtEnd(S) THEN [s |-> S, items |-> fields]
        ELSE LET r == Invoke("NameAndType", S, <<>>)
                 m == Invoke("match", r.s, {","})
             IN  IF m.ok THEN Invoke("StructFieldLoop", m.s, Append(fields, r.item))
                 ELSE [s |-> m.s, items |-> Append(fields, r.item)]

parseStructDeclaration(S) ==
    LET s1 == Invoke("advance", S, <<>>)
        startToken == previous(s1)
        name == Invoke("expectIdentifier", s1, <<>>)
        g == Invoke("OptionalGenerics", name.s, <<>>)
        s2 == Invoke("expect", g.s, "{").s
        fields == Invoke("StructFieldLoop", s2, <<>>)
        s3 == Invoke("expect", fields.s, "}").s
    IN  [s |-> s3,
         node |-> [type |-> "struct", name |-> name.value, fields |-> fields.items,
                   generics |-> g.generics,
                   range |-> [start |-> startToken.offset, end |-> NodeEnd(s3)],
                   line |-> startToken.line, column |-> startToken.column]]

RECURSIVE EnumVariantLoop(_, _)
EnumVariantLoop(S, variants) ==
    LET c == Invoke("check", S, "}")
    IN  IF c.s.thrown # "none" \/ c.ok THEN [s |-> c.s, items |-> variants]
        ELSE IF isAtEnd(S) THEN [s |-> S, items |-> variants]
        ELSE LET name == Invoke("expectIdentifier", S, <<>>)
                 paren == Invoke("match", name.s, {"("})
                 fields == Invoke("ParenthesizedFields", paren.s, <<>>)
                 s1 == IF paren.ok THEN Invoke("expect", fields.s, ")").s ELSE paren.s
                 variant == [name |-> name.value,
                             fields |-> IF paren.ok THEN SomeList(fields.items) ELSE NoList]
                 m == Invoke("match", s1, {","})
             IN  IF m.ok THEN Invoke("EnumVariantLoop", m.s, Append(variants, variant))
                 ELSE [s |-> m.s, items |-> Append(variants, variant)]

parseEnumDeclaration(S) ==
    LET s1 == Invoke("advance", S, <<>>)
        startToken == previous(s1)
        name == Invoke("expectIdentifier", s1, <<>>)
        g == Invoke("OptionalGenerics", name.s, <<>>)
        s2 == Invoke("expect", g.s, "{").s
        variants == Invoke("EnumVariantLoop", s2, <<>>)
        s3 == Invoke("expect", variants.s, "}").s
    IN  [s |-> s3,
         node |-> [type |-> "enum", name |-> name.value, variants |-> variants.items,
                   generics |-> g.generics,
                   range |-> [start |-> startToken.offset, end |-> NodeEnd(s3)],
                   line |-> startToken.line, column |-> startToken.column]]

parseVariableDeclaration(S) ==
    LET s1 == Invoke("advance", S, <<>>)
        startToken == previous(s1)
        name == Invoke("expectIdentifier", s1, <<>>)
        colon == Invoke("match", name.s, {":"})
        varType == IF colon.ok THEN Invoke("parseTypeExpression", colon.s, <<>>)
                   ELSE [s |-> colon.s, node |-> NoNode]
        assign == Invoke("match", varType.s, {"="})
        value == IF assign.ok THEN Invoke("parseExpression", assign.s, <<>>)
                 ELSE [s |-> assign.s, node |-> NoNode]
        s2 == Invoke("expectSemicolon", value.s, <<>>)
    IN  [s |-> s2,
         node |-> [type |-> "variable", name |-> name.value, varType |-> varType.node,
                   value |-> value.node, isConst |-> startToken.type = "const",
                   range |-> [start |-> startToken.offset, end |-> NodeEnd(s2)],
                   line |-> startToken.line, column |-> startToken.column]]

\* { block } with both braces expected
BracedBlock(S) ==
    LET s1 == Invoke("expect", S, "{").s
        body == Invoke("parseBlock", s1, <<>>)
    IN  [s |-> Invoke("expect", body.s, "}").s, items |-> body.items]

\* ( expression ) with both parentheses expected
ParenthesizedCondition(S) ==
    LET s1 == Invoke("expect", S, "(").s
        condition == Invoke("parseExpression", s1, <<>>)
    IN  [s |-> Invoke("expect", condition.s, ")").s, node |-> condition.node]

Located(fields, startToken, S) ==
    fields @@ [range |-> [start |-> startToken.offset, end |-> NodeEnd(S)],
               line |-> startToken.line, column |-> startToken.column]

parseIfStatement(S) ==
    LET s1 == Invoke("advance", S, <<>>)
        startToken == previous(s1)
        condition == Invoke("ParenthesizedCondition", s1, <<>>)
        thenBody == Invoke("BracedBlock", condition.s, <<>>)
        else == Invoke("match", thenBody.s, {"else"})
        elseBody == IF else.ok THEN Invoke("BracedBlock", else.s, <<>>)
                    ELSE [s |-> else.s, items |-> <<>>]
    IN  [s |-> elseBody.s,
         node |-> Located([type |-> "statement", kind |-> "if",
                           condition |-> condition.node, thenBody |-> thenBody.items,
                           elseBody |-> IF else.ok THEN SomeList(elseBody.items)
                                        ELSE NoList],
                          startToken, elseBody.s)]

\* the word between the item and the collection is read with
\* expect(IDENTIFIER)
parseForStatement(S) ==
    LET s1 == Invoke("advance", S, <<>>)
        startToken == previous(s1)
        item == Invoke("expectIdentifier", s1, <<>>)
        s2 == Invoke("expect", item.s, "identifier").s
        collection == Invoke("parseExpression", s2, <<>>)
        body == Invoke("BracedBlock", collection.s, <<>>)
    IN  [s |-> body.s,
         node |-> Located([type |-> "statement", kind |-> "for", item |-> item.value,
                           collection |-> collection.node, body |-> body.items],
                          startToken, body.s)]

parseWhileStatement(S) ==
    LET s1 == Invoke("advance", S, <<>>)
        startToken == previous(s1)
        condition == Invoke("ParenthesizedCondition", s1, <<>>)
        body == Invoke("BracedBlock", condition.s, <<>>)
    IN  [s |-> body.s,
         node |-> Located([type |-> "statement", kind |-> "while",
                           condition |-> condition.node, body |-> body.items],
                          startToken, body.s)]

MatchCaseLoop(S, cases) ==
    LET c == Invoke("check", S, "}")
    IN  IF c.s.thrown # "none" \/ c.ok THEN [s |-> c.s, items |-> cases]
        ELSE IF isAtEnd(S) THEN [s |-> S, items |-> cases]
        ELSE LET pattern == Invoke("parseExpression", S, <<>>)
                 if == Invoke("match", pattern.s, {"if"})
                 guard == IF if.ok THEN Invoke("parseExpression", if.s, <<>>)
                          ELSE [s |-> if.s, node |-> NoNode]
                 s1 == Invoke("expect", guard.s, "->").s
                 body == Invoke("BracedBlock", s1, <<>>)
                 case == [pattern |-> pattern.node, guard |-> guard.node,
                          body |-> body.items]
                 m == Invoke("match", body.s, {","})
             IN  IF m.ok THEN Invoke("MatchCaseLoop", m.s, Append(cases, case))
                 ELSE [s |-> m.s, items |-> Append(cases, case)]

parseMatchStatement(S) ==
    LET s1 == Invoke("advance", S, <<>>)
        startToken == previous(s1)
        expression == Invoke("parseExpression", s1, <<>>)
        s2 == Invoke("expect", expression.s, "{").s
        cases == Invoke("MatchCaseLoop", s2, <<>>)
        s3 == Invoke("expect", cases.s, "}").s
    IN  [s |-> s3,
         node |-> Located([type |-> "statement", kind |-> "match",
                           expression |-> expression.node, cases |-> cases.items],
                          startToken, s3)]

parseReturnStatement(S) ==
    LET s1 == Invoke("advance", S, <<>>)
        startToken == previous(s1)
        c == Invoke("check", s1, ";")
        value == IF c.ok \/ c.s.thrown # "none" THEN [s |-> c.s, node |-> NoNode]
                 ELSE Invoke("parseExpression", s1, <<>>)
        s2 == Invoke("expectSemicolon", value.s, <<>>)
    IN  [s |-> s2,
         node |-> Located([type |-> "statement", kind |-> "return",
                           value |-> value.node], startToken, s2)]

parseBreakContinueStatement(S) ==
    LET s1 == Invoke("advance", S, <<>>)
        startToken == previous(s1)
        s2 == Invoke("expectSemicolon", s1, <<>>)
    IN  [s |-> s2,
         node |-> Located([type |-> "statement",
                           kind |-> IF startToken.type = "break" THEN "break"
                                    ELSE "continue"], startToken, s2)]

parseImportStatement(S) ==
    LET s1 == Invoke("advance", S, <<>>)
        startToken == previous(s1)
        module == Invoke("expectIdentifier", s1, <<>>)
        colons == Invoke("match", module.s, {"::"})
        itemName == IF colons.ok THEN Invoke("expectIdentifier", colons.s, <<>>)
                    ELSE [s |-> colons.s, value |-> <<>>]
        s2 == Invoke("expectSemicolon", itemName.s, <<>>)
    IN  [s |-> s2,
         node |-> Located([type |-> "statement", kind |-> "import",
                           module |-> module.value,
                           itemName |-> IF colons.ok THEN SomeList(itemName.value)
                                        ELSE NoList], startToken, s2)]

\* while (!check(RIGHT_BRACE) && !isAtEnd()) methods.push(parseFunctionDeclaration())
parseTraitMethods(S, methods) ==
    LET c == Invoke("check", S, "}")
    IN  IF c.s.thrown # "none" \/ c.ok THEN [s |-> c.s, items |-> methods]
        ELSE IF isAtEnd(S) THEN [s |-> S, items |-> methods]
        ELSE LET method == Invoke("parseFunctionDeclaration", S, <<>>)
             IN  Invoke("parseTraitMethods", method.s, Append(methods, method.node))

BracedMethods(S) ==
    LET s1 == Invoke("expect", S, "{").s
        methods == Invoke("parseTraitMethods", s1, <<>>)
    IN  [s |-> Invoke("expect", methods.s, "}").s, items |-> methods.items]

parseTraitDeclaration(S) ==
    LET s1 == Invoke("advance", S, <<>>)
        startToken == previous(s1)
        name == Invoke("expectIdentifier", s1, <<>>)
        g == Invoke("OptionalGenerics", name.s, <<>>)
        methods == Invoke("BracedMethods", g.s, <<>>)
    IN  [s |-> methods.s,
         node |-> Located([type |-> "statement", kind |-> "trait", name |-> name.value,
                           generics |-> g.generics, methods |-> methods.items],
                          startToken, methods.s)]

parseImplDeclaration(S) ==
    LET s1 == Invoke("advance", S, <<>>)
        startToken == previous(s1)
        trait == Invoke("expectIdentifier", s1, <<>>)
        s2 == Invoke("expect", trait.s, "identifier").s
        implType == Invoke("parseTypeExpression", s2, <<>>)
        methods == Invoke("BracedMethods", implType.s, <<>>)
    IN  [s |-> methods.s,
         node |-> Located([type |-> "statement", kind |-> "impl", trait |-> trait.value,
                           implType |-> implType.node, methods |-> methods.items],
                          startToken, methods.s)]

parseModuleDeclaration(S) ==
    LET s1 == Invoke("advance", S, <<>>)
        startToken == previous(s1)
        name == Invoke("expectIdentifier", s1, <<>>)
        body == Invoke("BracedBlock", name.s, <<>>)
    IN  [s |-> body.s,
         node |-> Located([type |-> "statement", kind |-> "module", name |-> name.value,
                           body |-> body.items], startToken, body.s)]

parseExpressionStatement(S) ==
    LET expr == Invoke("parseExpression", S, <<>>)
        s1 == Invoke("expectSemicolon", expr.s, <<>>)
    IN  IF expr.s.thrown # "none" THEN [s |-> expr.s, node |-> NoNode] ELSE
        [s |-> s1,
         node |-> [type |-> "statement", kind |-> "expression",
                   expression |-> expr.node,
                   range |-> [start |-> expr.node.range.start,
                              end |-> expr.node.range.end],
                   line |-> expr.node.line, column |-> expr.node.column]]

\* the dispatcher shared by the top level and by blocks; reading the type of
\* the undefined token past the end of the stream throws
parseTopLevel(S) ==
    IF S.thrown # "none" THEN [s |-> S, node |-> NoNode]
    ELSE IF ~PeekDefined(S) THEN [s |-> Throw(S, "TypeError"), node |-> NoNode]
    ELSE LET t == peek(S).type
         IN  CASE t = "fn" -> parseFunctionDeclaration(S)
               [] t = "struct" -> parseStructDeclaration(S)
               [] t = "enum" -> parseEnumDeclaration(S)
               [] t \in {"let", "const"} -> parseVariableDeclaration(S)
               [] t = "import" -> parseImportStatement(S)
               [] t = "trait" -> parseTraitDeclaration(S)
               [] t = "impl" -> parseImplDeclaration(S)
               [] t = "mod" -> parseModuleDeclaration(S)
               [] t = "if" -> parseIfStatement(S)
               [] t = "for" -> parseForStatement(S)
               [] t = "while" -> parseWhileStatement(S)
               [] t = "match" -> parseMatchStatement(S)
               [] t = "return" -> parseReturnStatement(S)
               [] t \in {"break", "continue"} -> parseBreakContinueStatement(S)
               [] OTHER -> parseExpressionStatement(S)

\* this.<method>(): the call of a parsing method from another one
Invoke(method, S, arg) ==
    CASE method = "parseTopLevel" -> parseTopLevel(S)
      [] method = "parseExpression" -> parseExpression(S)
      [] method = "parseBlock" -> parseBlock(S)
      [] method = "parseTypeExpression" -> parseTypeExpression(S)
      [] method = "parseFunctionDeclaration" -> parseFunctionDeclaration(S)
      [] method = "parseStructDeclaration" -> parseStructDeclaration(S)
      [] method = "parseEnumDeclaration" -> parseEnumDeclaration(S)
      [] method = "parseVariableDeclaration" -> parseVariableDeclaration(S)
      [] method = "parseImportStatement" -> parseImportStatement(S)
      [] method = "parseTraitDeclaration" -> parseTraitDeclaration(S)
      [] method = "parseImplDeclaration" -> parseImplDeclaration(S)
      [] method = "parseModuleDeclaration" -> parseModuleDeclaration(S)
      [] method = "parseIfStatement" -> parseIfStatement(S)
      [] method = "parseForStatement" -> parseForStatement(S)
      [] method = "parseWhileStatement" -> parseWhileStatement(S)
      [] method = "parseMatchStatement" -> parseMatchStatement(S)
      [] method = "parseReturnStatement" -> parseReturnStatement(S)
      [] method = "parseBreakContinueStatement" -> parseBreakContinueStatement(S)
      [] method = "parseExpressionStatement" -> parseExpressionStatement(S)
      [] method = "advance" -> advance(S)
      [] method = "expectIdentifier" -> expectIdentifier(S)
      [] method = "expectSemicolon" -> expectSemicolon(S)
      [] method = "parseTypeParameters" -> parseTypeParameters(S)
      [] method = "OptionalGenerics" -> OptionalGenerics(S)
      [] method = "NameAndType" -> NameAndType(S)
      [] method = "ParenthesizedFields" -> ParenthesizedFields(S)
      [] method = "BracedBlock" -> BracedBlock(S)
      [] method = "ParenthesizedCondition" -> ParenthesizedCondition(S)
      [] method = "BracedMethods" -> BracedMethods(S)
      [] method = "match" -> match(S, arg)
      [] method = "check" -> check(S, arg)
      [] method = "expect" -> expect(S, arg)
      [] method = "TypeArgumentLoop" -> TypeArgumentLoop(S, arg)
      [] method = "TypeParameterLoop" -> TypeParameterLoop(S, arg)
      [] method = "NameAndTypeDoLoop" -> NameAndTypeDoLoop(S, arg)
      [] method = "StructFieldLoop" -> StructFieldLoop(S, arg)
      [] method = "EnumVariantLoop" -> EnumVariantLoop(S, arg)
      [] method = "MatchCaseLoop" -> MatchCaseLoop(S, arg)
      [] method = "parseTraitMethods" -> parseTraitMethods(S, arg)

\* synchronize: advance, then skip to just after a semicolon or to just
\* before a token that starts a declaration or statement
SynchronizeStops ==
    {"fn", "struct", "enum", "let", "const", "if", "for", "while", "return"}

RECURSIVE SynchronizeLoop(_)
SynchronizeLoop(S) ==
    IF S.thrown # "none" THEN S
    ELSE IF ~PeekDefined(S) THEN Throw(S, "TypeError")
    ELSE IF isAtEnd(S) THEN S
    ELSE IF previous(S).type = ";" THEN S
    ELSE IF peek(S).type \in SynchronizeStops THEN S
    ELSE SynchronizeLoop(advance(S))

\* a synchronize that leaves out its first advance
synchronizeInPlace(S) == SynchronizeLoop(S)

synchronize(S) == SynchronizeLoop(advance(S))

-----------------------------------------------------------------------------
(* SemanticAnalyzer.  The analyzer object A holds errors, symbolTable (a   *)
(* Map, kept here as its entries in insertion order), functionScopes and   *)
(* its TypeChecker.  A name is a sequence of characters, as in the tokens. *)

\* a field that holds a node or nothing: whether it holds a node
Defined(node) == node.type # "none"

\* node.field for a field that only some kinds of node have
Present(node, field) == field \in DOMAIN node /\ Defined(node[field])

NewTypeChecker ==
    [errors |-> <<>>, variables |-> <<>>, functions |-> <<>>, types |-> <<>>]

NewAnalyzer ==
    [errors |-> <<>>, symbolTable |-> <<>>, functionScopes |-> <<>>,
     typeChecker |-> NewTypeChecker]

\* DiagnosticSeverity.Error and DiagnosticSeverity.Warning of the protocol
SeverityError == "Error"

SeverityWarning == "Warning"

\* SemanticAnalyzer.addError: the message is kept as its template and the
\* name it quotes
analyzerAddError(A, message, name, range, severity, code) ==
    [A EXCEPT !.errors =
        Append(@, [message |-> message, name |-> name,
                   range |-> [start |-> [line |-> 0, character |-> range.start],
                              end |-> [line |-> 0, character |-> range.end]],
                   severity |-> severity, code |-> code])]

\* /^[a-zA-Z_][a-zA-Z0-9_]*$/
isValidIdentifier(name) ==
    /\ name # <<>>
    /\ name[1] \in LowerChars \cup UpperChars \cup {"_"}
    /\ \A i \in 2 .. Len(name) :
          name[i] \in LowerChars \cup UpperChars \cup DigitChars \cup {"_"}

\* /^[A-Z][a-zA-Z0-9_]*$/
isValidTypeName(name) ==
    /\ name # <<>>
    /\ name[1] \in UpperChars
    /\ \A i \in 2 .. Len(name) :
          name[i] \in LowerChars \cup UpperChars \cup DigitChars \cup {"_"}

\* /^[A-Z][A-Z0-9_]*$/
isValidConstName(name) ==
    /\ name # <<>>
    /\ name[1] \in UpperChars
    /\ \A i \in 2 .. Len(name) : name[i] \in UpperChars \cup DigitChars \cup {"_"}

PrimitiveTypeNames == {"int", "float", "bool", "string", "char", "void"}

isPrimitiveType(name) == Text(name) \in PrimitiveTypeNames

\* `${uri}:${name}`
SymbolKey(uri, name) == uri \o <<":">> \o name

\* symbolTable.has(key)
SymbolHas(A, key) == \E i \in 1 .. Len(A.symbolTable) : A.symbolTable[i].key = key

\* symbolTable.set(key, info): the entry of the key is replaced in place, a
\* new key is entered last
SymbolSet(A, key, info) ==
    IF SymbolHas(A, key)
    THEN [A EXCEPT !.symbolTable =
            [i \in 1 .. Len(A.symbolTable) |->
                IF A.symbolTable[i].key = key THEN [key |-> key, info |-> info]
                ELSE A.symbolTable[i]]]
    ELSE [A EXCEPT !.symbolTable = Append(@, [key |-> key, info |-> info])]

\* the loop over the parameters of a function, the fields of a struct or the
\* variants of an enum: a name seen before is reported, a name of the wrong
\* form is reported; <<analyzer, names>>
RECURSIVE NameLoop(_, _, _, _, _)
NameLoop(A, items, seen, what, ownerRange) ==
    IF items = <<>> THEN [a |-> A, names |-> seen]
    ELSE LET item == Head(items)
             range == IF what = "variant" THEN ownerRange ELSE item.type.range
             valid == IF what = "variant" THEN isValidTypeName(item.name)
                      ELSE isValidIdentifier(item.name)
             Validated(a) ==
                 IF valid THEN a
                 ELSE analyzerAddError(a, "Invalid " \o what \o " name", item.name,
                                       range, SeverityError, "invalid_" \o what \o "_name")
         IN  NameLoop(
                 Validated(IF item.name \in seen
                           THEN analyzerAddError(A, "Duplicate " \o what \o " name",
                                                 item.name, range, SeverityError,
                                                 "duplicate_" \o what)
                           ELSE A),
                 Tail(items), seen \cup {item.name}, what, ownerRange)

\* the declaration of a kind: the check for an entry of the same key, the
\* check of the name, the loop over the members and the entry
collectFunctionDeclaration(A, func, uri) ==
    LET symbolKey == SymbolKey(uri, func.name)
        Stored(r) ==
            [SymbolSet(r.a, symbolKey,
                       [type |-> "function", name |-> func.name, uri |-> uri,
                        range |-> func.range, parameters |-> func.parameters,
                        returnType |-> func.returnType, isAsync |-> func.isAsync])
                EXCEPT !.functionScopes =
                    Append(SelectSeq(@, LAMBDA e : e.key # symbolKey),
                           [key |-> symbolKey, names |-> r.names])]
    IN  IF SymbolHas(A, symbolKey)
        THEN analyzerAddError(A, "Function is already declared", func.name, func.range,
                              SeverityError, "duplicate_function")
        ELSE Stored(NameLoop(
                 IF isValidIdentifier(func.name) THEN A
                 ELSE analyzerAddError(A, "Invalid function name", func.name, func.range,
                                       SeverityError, "invalid_function_name"),
                 func.parameters, {}, "parameter", func.range))

collectStructDeclaration(A, struct, uri) ==
    LET symbolKey == SymbolKey(uri, struct.name)
        Stored(r) ==
            SymbolSet(r.a, symbolKey,
                      [type |-> "struct", name |-> struct.name, uri |-> uri,
                       range |-> struct.range, fields |-> struct.fields,
                       generics |-> struct.generics])
    IN  IF SymbolHas(A, symbolKey)
        THEN analyzerAddError(A, "Struct is already declared", struct.name, struct.range,
                              SeverityError, "duplicate_struct")
        ELSE Stored(NameLoop(
                 IF isValidTypeName(struct.name) THEN A
                 ELSE analyzerAddError(A, "Invalid struct name (should be PascalCase)",
                                       struct.name, struct.range, SeverityError,
                                       "invalid_struct_name"),
                 struct.fields, {}, "field", struct.range))

collectEnumDeclaration(A, enumDecl, uri) ==
    LET symbolKey == SymbolKey(uri, enumDecl.name)
        Stored(r) ==
            SymbolSet(r.a, symbolKey,
                      [type |-> "enum", name |-> enumDecl.name, uri |-> uri,
                       range |-> enumDecl.range, variants |-> enumDecl.variants,
                       generics |-> enumDecl.generics])
    IN  IF SymbolHas(A, symbolKey)
        THEN analyzerAddError(A, "Enum is already declared", enumDecl.name,
                              enumDecl.range, SeverityError, "duplicate_enum")
        ELSE Stored(NameLoop(
                 IF isValidTypeName(enumDecl.name) THEN A
                 ELSE analyzerAddError(A, "Invalid enum name (should be PascalCase)",
                                       enumDecl.name, enumDecl.range, SeverityError,
                                       "invalid_enum_name"),
                 enumDecl.variants, {}, "variant", enumDecl.range))

\* a declaration of a variable that is entered whether or not the name is
\* in the table
collectVariableDeclarationNoReturn(A, variable, uri) ==
    LET symbolKey == SymbolKey(uri, variable.name)
        Named(a) ==
            IF isValidIdentifier(variable.name) THEN a
            ELSE analyzerAddError(a, "Invalid variable name", variable.name,
                                  variable.range, SeverityError, "invalid_variable_name")
        Conventional(a) ==
            IF variable.isConst /\ ~isValidConstName(variable.name)
            THEN analyzerAddError(a, "Constant should be in UPPER_SNAKE_CASE",
                                  variable.name, variable.range, SeverityWarning,
                                  "const_naming_convention")
            ELSE a
    IN  SymbolSet(Conventional(Named(
                      IF SymbolHas(A, symbolKey)
                      THEN analyzerAddError(A, "Variable is already declared",
                                            variable.name, variable.range,
                                            SeverityError, "duplicate_variable")
                      ELSE A)),
                  symbolKey,
                  [type |-> "variable", name |-> variable.name, uri |-> uri,
                   range |-> variable.range, varType |-> variable.varType,
                   isConst |-> variable.isConst])

\* a declaration of a constant whose naming diagnostic is an error
collectVariableDeclarationConstError(A, variable, uri) ==
    LET symbolKey == SymbolKey(uri, variable.name)
        Named(a) ==
            IF isValidIdentifier(variable.name) THEN a
            ELSE analyzerAddError(a, "Invalid variable name", variable.name,
                                  variable.range, SeverityError, "invalid_variable_name")
        Conventional(a) ==
            IF variable.isConst /\ ~isValidConstName(variable.name)
            THEN analyzerAddError(a, "Constant should be in UPPER_SNAKE_CASE",
                                  variable.name, variable.range, SeverityError,
                                  "const_naming_convention")
            ELSE a
    IN  IF SymbolHas(A, symbolKey)
        THEN analyzerAddError(A, "Variable is already declared", variable.name,
                              variable.range, SeverityError, "duplicate_variable")
        ELSE SymbolSet(Conventional(Named(A)), symbolKey,
                       [type |-> "variable", name |-> variable.name, uri |-> uri,
                        range |-> variable.range, varType |-> variable.varType,
                        isConst |-> variable.isConst])

collectVariableDeclaration(A, variable, uri) ==
    LET symbolKey == SymbolKey(uri, variable.name)
        Named(a) ==
            IF isValidIdentifier(variable.name) THEN a
            ELSE analyzerAddError(a, "Invalid variable name", variable.name,
                                  variable.range, SeverityError, "invalid_variable_name")
        Conventional(a) ==
            IF variable.isConst /\ ~isValidConstName(variable.name)
            THEN analyzerAddError(a, "Constant should be in UPPER_SNAKE_CASE",
                                  variable.name, variable.range, SeverityWarning,
                                  "const_naming_convention")
            ELSE a
    IN  IF SymbolHas(A, symbolKey)
        THEN analyzerAddError(A, "Variable is already declared", variable.name,
                              variable.range, SeverityError, "duplicate_variable")
        ELSE SymbolSet(Conventional(Named(A)), symbolKey,
                       [type |-> "variable", name |-> variable.name, uri |-> uri,
                        range |-> variable.range, varType |-> variable.varType,
                        isConst |-> variable.isConst])

\* stmt.name || ''
NameOrEmpty(stmt) == IF "name" \in DOMAIN stmt THEN stmt.name ELSE <<>>

\* a statement node of kind function, struct or enum is collected as the
\* declaration built from its fields
collectStatementDeclarations(A, stmt, uri) ==
    CASE stmt.kind = "function" /\ "parameters" \in DOMAIN stmt ->
            collectFunctionDeclaration(A,
                [type |-> "function", name |-> NameOrEmpty(stmt),
                 parameters |-> stmt.parameters,
                 returnType |-> IF "returnType" \in DOMAIN stmt THEN stmt.returnType
                                ELSE NoNode,
                 body |-> <<>>, isAsync |-> FALSE, range |-> stmt.range,
                 line |-> stmt.line, column |-> stmt.column], uri)
      [] stmt.kind = "struct" /\ "fields" \in DOMAIN stmt ->
            collectStructDeclaration(A,
                [type |-> "struct", name |-> NameOrEmpty(stmt), fields |-> stmt.fields,
                 generics |-> NoList, range |-> stmt.range,
                 line |-> stmt.line, column |-> stmt.column], uri)
      [] stmt.kind = "enum" /\ "variants" \in DOMAIN stmt ->
            collectEnumDeclaration(A,
                [type |-> "enum", name |-> NameOrEmpty(stmt), variants |-> stmt.variants,
                 generics |-> NoList, range |-> stmt.range,
                 line |-> stmt.line, column |-> stmt.column], uri)
      [] OTHER -> A

collectDeclarations(A, node, uri) ==
    CASE node.type = "function" -> collectFunctionDeclaration(A, node, uri)
      [] node.type = "struct" -> collectStructDeclaration(A, node, uri)
      [] node.type = "enum" -> collectEnumDeclaration(A, node, uri)
      [] node.type = "variable" -> collectVariableDeclaration(A, node, uri)
      [] node.type = "statement" -> collectStatementDeclarations(A, node, uri)
      [] OTHER -> A

\* validateTypeExpression: the base type is a type name or a primitive type,
\* and so are its generic arguments
RECURSIVE validateTypeExpression(_, _, _)
RECURSIVE ValidateTypes(_, _, _)
validateTypeExpression(A, typeExpr, uri) ==
    ValidateTypes(
        IF ~isValidTypeName(typeExpr.baseType) /\ ~isPrimitiveType(typeExpr.baseType)
        THEN analyzerAddError(A, "Unknown type", typeExpr.baseType, typeExpr.range,
                              SeverityError, "unknown_type")
        ELSE A,
        typeExpr.genericArgs.items, uri)

\* for (const t of types) validateTypeExpression(t, uri)
ValidateTypes(A, types, uri) ==
    IF types = <<>> THEN A
    ELSE ValidateTypes(validateTypeExpression(A, Head(types), uri), Tail(types), uri)

\* the types of a list of parameters or fields
RECURSIVE TypesOf(_)
TypesOf(items) ==
    IF items = <<>> THEN <<>> ELSE <<Head(items).type>> \o TypesOf(Tail(items))

\* the constraints that the generic parameters of a list have
RECURSIVE ConstraintsOf(_)
ConstraintsOf(generics) ==
    IF generics = <<>> THEN <<>>
    ELSE (IF Defined(Head(generics).constraint) THEN <<Head(generics).constraint>>
          ELSE <<>>) \o ConstraintsOf(Tail(generics))

\* the types of the fields of the variants of an enum, in order
RECURSIVE VariantFieldTypes(_)
VariantFieldTypes(variants) ==
    IF variants = <<>> THEN <<>>
    ELSE TypesOf(Head(variants).fields.items) \o VariantFieldTypes(Tail(variants))

validateIdentifier(A, name, range, uri) ==
    IF SymbolHas(A, SymbolKey(uri, name)) THEN A
    ELSE analyzerAddError(A, "Undefined identifier", name, range, SeverityError,
                          "undefined_identifier")

RECURSIVE Analyze(_, _, _, _)
RECURSIVE AnalyzeEach(_, _, _, _)

\* for (const x of items) this.<method>(x, uri)
AnalyzeEach(method, A, items, uri) ==
    IF items = <<>> THEN A
    ELSE AnalyzeEach(method, Analyze(method, A, Head(items), uri), Tail(items), uri)

analyzeExpression(A, expr, uri) ==
    LET Left(a) == IF Present(expr, "left")
                   THEN Analyze("analyzeExpression", a, expr.left, uri) ELSE a
        Right(a) == IF Present(expr, "right")
                    THEN Analyze("analyzeExpression", a, expr.right, uri) ELSE a
    IN  CASE expr.kind = "identifier" -> validateIdentifier(A, expr.value, expr.range, uri)
          [] expr.kind \in {"binary", "index_access"} -> Right(Left(A))
          [] expr.kind = "unary" -> Right(A)
          [] expr.kind = "call" ->
                AnalyzeEach("analyzeExpression", Left(A), expr.value, uri)
          [] expr.kind = "member_access" -> Left(A)
          [] expr.kind = "parenthesized" ->
                Analyze("analyzeExpression", A, expr.value, uri)
          [] expr.kind = "array" -> AnalyzeEach("analyzeExpression", A, expr.value, uri)
          [] expr.kind = "block" -> AnalyzeEach("analyzeStatement", A, expr.value, uri)
          [] OTHER -> A

\* one case of a match statement: the pattern, the guard and the body
analyzeMatchCase(A, matchCase, uri) ==
    LET Guard(a) == IF Defined(matchCase.guard)
                    THEN Analyze("analyzeExpression", a, matchCase.guard, uri) ELSE a
    IN  AnalyzeEach("analyzeStatement",
                    Guard(Analyze("analyzeExpression", A, matchCase.pattern, uri)),
                    matchCase.body, uri)

\* a node without a kind, as a declaration in a block is, matches no case
analyzeStatement(A, stmt, uri) ==
    LET kind == IF "kind" \in DOMAIN stmt THEN stmt.kind ELSE "undefined"
        Condition(a) == IF Defined(stmt.condition)
                        THEN Analyze("analyzeExpression", a, stmt.condition, uri) ELSE a
    IN  CASE kind = "expression" ->
                IF Defined(stmt.expression)
                THEN Analyze("analyzeExpression", A, stmt.expression, uri) ELSE A
          [] kind = "if" ->
                AnalyzeEach("analyzeStatement",
                            AnalyzeEach("analyzeStatement", Condition(A), stmt.thenBody, uri),
                            stmt.elseBody.items, uri)
          [] kind = "for" ->
                AnalyzeEach("analyzeStatement",
                            IF Defined(stmt.collection)
                            THEN Analyze("analyzeExpression", A, stmt.collection, uri)
                            ELSE A,
                            stmt.body, uri)
          [] kind = "while" ->
                AnalyzeEach("analyzeStatement", Condition(A), stmt.body, uri)
          [] kind = "match" ->
                IF Defined(stmt.expression)
                THEN AnalyzeEach("analyzeMatchCase",
                                 Analyze("analyzeExpression", A, stmt.expression, uri),
                                 stmt.cases, uri)
                ELSE AnalyzeEach("analyzeMatchCase", A, stmt.cases, uri)
          [] kind = "return" ->
                IF Defined(stmt.value)
                THEN Analyze("analyzeExpression", A, stmt.value, uri) ELSE A
          [] OTHER -> A

analyzeFunction(A, func, uri) ==
    LET Return(a) == IF Defined(func.returnType)
                     THEN validateTypeExpression(a, func.returnType, uri) ELSE a
    IN  ValidateTypes(Return(AnalyzeEach("analyzeStatement", A, func.body, uri)),
                      TypesOf(func.parameters), uri)

analyzeStruct(A, struct, uri) ==
    ValidateTypes(ValidateTypes(A, TypesOf(struct.fields), uri),
                  ConstraintsOf(struct.generics.items), uri)

analyzeEnum(A, enumDecl, uri) ==
    ValidateTypes(ValidateTypes(A, VariantFieldTypes(enumDecl.variants), uri),
                  ConstraintsOf(enumDecl.generics.items), uri)

analyzeVariable(A, variable, uri) ==
    LET Value(a) == IF Defined(variable.value)
                    THEN Analyze("analyzeExpression", a, variable.value, uri) ELSE a
    IN  Value(IF Defined(variable.varType)
              THEN validateTypeExpression(A, variable.varType, uri) ELSE A)

analyzeNode(A, node, uri) ==
    CASE node.type = "function" -> analyzeFunction(A, node, uri)
      [] node.type = "struct" -> analyzeStruct(A, node, uri)
      [] node.type = "enum" -> analyzeEnum(A, node, uri)
      [] node.type = "variable" -> analyzeVariable(A, node, uri)
      [] node.type = "statement" -> analyzeStatement(A, node, uri)
      [] OTHER -> A

\* this.<method>(x, uri): the call of one analysis method from another
Analyze(method, A, x, uri) ==
    CASE method = "analyzeNode" -> analyzeNode(A, x, uri)
      [] method = "analyzeStatement" -> analyzeStatement(A, x, uri)
      [] method = "analyzeExpression" -> analyzeExpression(A, x, uri)
      [] method = "analyzeMatchCase" -> analyzeMatchCase(A, x, uri)

-----------------------------------------------------------------------------
(* TypeChecker.  The checker object T holds errors and the global context  *)
(* (variables, functions, types: Maps, kept here as functions of the       *)
(* names).  A Type is kind, name and genericArgs; no Type the checker      *)
(* makes has isReference or isMutable.  The name of a type is a string.    *)

\* Map.set(key, value)
MapSet(map, key, value) ==
    [k \in DOMAIN map \cup {key} |-> IF k = key THEN value ELSE map[k]]

createPrimitiveType(name) == [kind |-> "primitive", name |-> name, genericArgs |-> NoList]

createGenericType(name, genericArgs) ==
    [kind |-> "generic", name |-> name, genericArgs |-> SomeList(genericArgs)]

createUnknownType == [kind |-> "unknown", name |-> "unknown", genericArgs |-> NoList]

createErrorType == [kind |-> "error", name |-> "error", genericArgs |-> NoList]

\* no returnType in a context
NoType == [kind |-> "none", name |-> "none", genericArgs |-> NoList]

\* TypeChecker.addError: the message is kept as its template and the names
\* it quotes
checkerAddError(errors, message, names, node) ==
    Append(errors, [message |-> message, names |-> names, range |-> node.range,
                    line |-> node.line, column |-> node.column])

\* an optional boolean field of a Type (isReference, isMutable): <<>> when
\* the object has no such field (undefined), and <<value>> otherwise
Flag(type, field) == IF field \in DOMAIN type THEN <<type[field]>> ELSE <<>>

\* a typesEqual that does not compare isReference and isMutable
typesEqualUpToFlags(a, b) ==
    /\ a.kind = b.kind
    /\ a.name = b.name
    /\ a.genericArgs = b.genericArgs

RECURSIVE typesEqual(_, _)
typesEqual(a, b) ==
    /\ a.kind = b.kind
    /\ a.name = b.name
    /\ Flag(a, "isReference") = Flag(b, "isReference")
    /\ Flag(a, "isMutable") = Flag(b, "isMutable")
    /\ IF a.genericArgs.defined /\ b.genericArgs.defined
       THEN /\ Len(a.genericArgs.items) = Len(b.genericArgs.items)
            /\ \A i \in 1 .. Len(a.genericArgs.items) :
                  typesEqual(a.genericArgs.items[i], b.genericArgs.items[i])
       ELSE ~(a.genericArgs.defined \/ b.genericArgs.defined)

\* the types Map is that of the global context
lookupType(types, name) ==
    IF Text(name) \in PrimitiveTypeNames THEN createPrimitiveType(Text(name))
    ELSE IF name \in DOMAIN types THEN types[name]
    ELSE createErrorType

\* TypeChecker.parseTypeExpression
RECURSIVE typeOfTypeExpression(_, _)
typeOfTypeExpression(types, typeExpr) ==
    LET baseType == lookupType(types, typeExpr.baseType)
    IN  IF baseType.kind = "error" THEN createErrorType
        ELSE IF typeExpr.genericArgs.defined
        THEN createGenericType(baseType.name,
                 [i \in 1 .. Len(typeExpr.genericArgs.items) |->
                     typeOfTypeExpression(types, typeExpr.genericArgs.items[i])])
        ELSE baseType

\* typeExpr ? parseTypeExpression(typeExpr) : createPrimitiveType('void')
TypeOrVoid(types, typeExpr) ==
    IF Defined(typeExpr) THEN typeOfTypeExpression(types, typeExpr)
    ELSE createPrimitiveType("void")

\* the values are the texts of the literal tokens, so none is a number
inferLiteralType(value) ==
    IF value # <<>> /\ value[1] \in {"\"", "'"} THEN createPrimitiveType("string")
    ELSE IF value \in BooleanWords THEN createPrimitiveType("bool")
    ELSE createUnknownType

lookupVariableType(errors, context, expr) ==
    IF expr.value \in DOMAIN context.variables
    THEN [errors |-> errors, type |-> context.variables[expr.value]]
    ELSE [errors |-> checkerAddError(errors, "Undefined variable", <<Text(expr.value)>>, expr),
          type |-> createErrorType]

checkTypeCompatibility(errors, actual, expected, node) ==
    IF typesEqual(actual, expected) THEN errors
    ELSE checkerAddError(errors, "Type mismatch: expected, got",
                         <<expected.name, actual.name>>, node)

checkBooleanType(errors, type, node) ==
    IF type.name = "bool" THEN errors
    ELSE checkerAddError(errors, "Expected boolean type, got", <<type.name>>, node)

checkIterableType(errors, type, node) ==
    IF type.name \in {"Vec", "string"} THEN errors
    ELSE checkerAddError(errors, "Expected iterable type (Vec or string), got",
                         <<type.name>>, node)

inferArithmeticType(errors, left, right, node) ==
    IF left.name = "float" \/ right.name = "float"
    THEN [errors |-> errors, type |-> createPrimitiveType("float")]
    ELSE IF left.name = "int" /\ right.name = "int"
    THEN [errors |-> errors, type |-> createPrimitiveType("int")]
    ELSE [errors |-> checkerAddError(errors, "Cannot perform arithmetic on types",
                                     <<left.name, right.name>>, node),
          type |-> createErrorType]

getArrayElementType(arrayType) ==
    IF arrayType.name = "Vec" /\ arrayType.genericArgs.defined
       /\ Len(arrayType.genericArgs.items) > 0
    THEN arrayType.genericArgs.items[1]
    ELSE IF arrayType.name = "string" THEN createPrimitiveType("char")
    ELSE createUnknownType

RECURSIVE Check(_, _, _, _)
RECURSIVE CheckEach(_, _, _, _)
RECURSIVE InferEach(_, _, _, _)
RECURSIVE ArgumentLoop(_, _, _, _, _)

\* for (const x of items) this.<method>(x, context, uri)
CheckEach(method, errors, context, items) ==
    IF items = <<>> THEN errors
    ELSE CheckEach(method, Check(method, errors, context, Head(items)), context,
                   Tail(items))

\* elements.map(element => inferExpressionType(element, context, uri))
InferEach(errors, context, items, types) ==
    LET Rest(r) == InferEach(r.errors, context, Tail(items), Append(types, r.type))
    IN  IF items = <<>> THEN [errors |-> errors, types |-> types]
        ELSE Rest(Check("inferExpressionType", errors, context, Head(items)))

\* the loop of checkFunctionCall over the arguments
ArgumentLoop(errors, context, args, parameters, i) ==
    LET Rest(r) ==
            ArgumentLoop(checkTypeCompatibility(r.errors, r.type, parameters[i], args[i]),
                         context, args, parameters, i + 1)
    IN  IF i > Len(args) THEN errors
        ELSE Rest(Check("inferExpressionType", errors, context, args[i]))

checkFunctionCall(errors, context, functionType, args, node) ==
    IF Len(args) # Len(functionType.parameters)
    THEN checkerAddError(errors, "Function expects arguments, got",
                         <<Len(functionType.parameters), Len(args)>>, node)
    ELSE ArgumentLoop(errors, context, args, functionType.parameters, 1)

ArithmeticOperators == {"+", "-", "*", "/", "%"}

ComparisonOperators == {"==", "!=", "<", "<=", ">", ">="}

LogicalOperators == {"&&", "||"}

AssignmentOperatorTexts == {"=", "+=", "-=", "*=", "/=", "%="}

inferBinaryExpressionType(errors, context, expr) ==
    LET operator == Text(expr.operator)
        Both(l, r) ==
            CASE operator \in ArithmeticOperators ->
                    inferArithmeticType(r.errors, l.type, r.type, expr)
              [] operator \in ComparisonOperators ->
                    [errors |-> r.errors, type |-> createPrimitiveType("bool")]
              [] operator \in LogicalOperators ->
                    [errors |-> checkBooleanType(
                                    checkBooleanType(r.errors, l.type, expr.left),
                                    r.type, expr.right),
                     type |-> createPrimitiveType("bool")]
              [] operator \in AssignmentOperatorTexts ->
                    [errors |-> checkTypeCompatibility(r.errors, r.type, l.type, expr),
                     type |-> l.type]
              [] OTHER -> [errors |-> r.errors, type |-> createUnknownType]
        Left(l) == Both(l, Check("inferExpressionType", l.errors, context, expr.right))
    IN  Left(Check("inferExpressionType", errors, context, expr.left))

inferUnaryExpressionType(errors, context, expr) ==
    LET operator == Text(expr.operator)
        Operand(r) ==
            CASE operator = "-" ->
                    IF r.type.name \in {"int", "float"} THEN r
                    ELSE [errors |-> checkerAddError(r.errors,
                                         "Cannot apply unary '-' to type",
                                         <<r.type.name>>, expr),
                          type |-> createErrorType]
              [] operator = "!" ->
                    [errors |-> checkBooleanType(r.errors, r.type, expr.right),
                     type |-> createPrimitiveType("bool")]
              [] OTHER -> [errors |-> r.errors, type |-> createUnknownType]
    IN  Operand(Check("inferExpressionType", errors, context, expr.right))

inferCallExpressionType(errors, context, expr) ==
    LET Callee(c) ==
            IF c.type.kind = "function"
            THEN [errors |-> checkFunctionCall(c.errors, context, c.type, expr.value, expr),
                  type |-> c.type.returnType]
            ELSE [errors |-> checkerAddError(c.errors, "Cannot call expression of type",
                                             <<c.type.name>>, expr),
                  type |-> createErrorType]
    IN  Callee(Check("inferExpressionType", errors, context, expr.left))

\* lookupStructField and lookupEnumVariant return the unknown type
inferMemberAccessType(errors, context, expr) ==
    LET Object(o) ==
            IF o.type.kind \in {"struct", "enum"}
            THEN [errors |-> o.errors, type |-> createUnknownType]
            ELSE [errors |-> checkerAddError(o.errors, "Cannot access member on type",
                                             <<Text(expr.value), o.type.name>>, expr),
                  type |-> createErrorType]
    IN  Object(Check("inferExpressionType", errors, context, expr.left))

inferIndexAccessType(errors, context, expr) ==
    LET Indexed(a, e) ==
            IF a.type.name \in {"Vec", "string"}
            THEN [errors |-> e, type |-> getArrayElementType(a.type)]
            ELSE [errors |-> checkerAddError(e, "Cannot index type", <<a.type.name>>,
                                             expr.left),
                  type |-> createErrorType]
        Both(a, i) ==
            Indexed(a, IF i.type.name # "int"
                       THEN checkerAddError(i.errors, "Array index must be of type 'int', got",
                                            <<i.type.name>>, expr.right)
                       ELSE i.errors)
        Array(a) == Both(a, Check("inferExpressionType", a.errors, context, expr.right))
    IN  Array(Check("inferExpressionType", errors, context, expr.left))

\* the loop of inferArrayType: an element whose type is not the first type
RECURSIVE ElementLoop(_, _, _, _)
ElementLoop(errors, elements, types, i) ==
    IF i > Len(types) THEN errors
    ELSE ElementLoop(
             IF typesEqual(types[i], types[1]) THEN errors
             ELSE checkerAddError(errors, "Array elements must have the same type, got",
                                  <<types[1].name, types[i].name>>, elements[i]),
             elements, types, i + 1)

inferArrayType(errors, context, expr) ==
    LET Elements(r) ==
            [errors |-> ElementLoop(r.errors, expr.value, r.types, 2),
             type |-> createGenericType("Vec", <<r.types[1]>>)]
    IN  IF expr.value = <<>>
        THEN [errors |-> errors, type |-> createGenericType("Vec", <<createUnknownType>>)]
        ELSE Elements(InferEach(errors, context, expr.value, <<>>))

\* the expression statements of a block, the last one first
LastExpressionStatement(statements) ==
    LET found == { i \in 1 .. Len(statements) :
                      /\ "kind" \in DOMAIN statements[i]
                      /\ statements[i].kind = "expression"
                      /\ Defined(statements[i].expression) }
    IN  IF found = {} THEN 0 ELSE CHOOSE i \in found : \A j \in found : j <= i

inferBlockType(errors, context, expr) ==
    LET last == LastExpressionStatement(expr.value)
    IN  IF last = 0 THEN [errors |-> errors, type |-> createPrimitiveType("void")]
        ELSE Check("inferExpressionType", errors, context, expr.value[last].expression)

inferExpressionType(errors, context, expr) ==
    CASE expr.kind = "literal" -> [errors |-> errors, type |-> inferLiteralType(expr.value)]
      [] expr.kind = "identifier" -> lookupVariableType(errors, context, expr)
      [] expr.kind = "binary" -> inferBinaryExpressionType(errors, context, expr)
      [] expr.kind = "unary" -> inferUnaryExpressionType(errors, context, expr)
      [] expr.kind = "call" -> inferCallExpressionType(errors, context, expr)
      [] expr.kind = "member_access" -> inferMemberAccessType(errors, context, expr)
      [] expr.kind = "index_access" -> inferIndexAccessType(errors, context, expr)
      [] expr.kind = "parenthesized" ->
            Check("inferExpressionType", errors, context, expr.value)
      [] expr.kind = "array" -> inferArrayType(errors, context, expr)
      [] expr.kind = "block" -> inferBlockType(errors, context, expr)
      [] OTHER -> [errors |-> errors, type |-> createUnknownType]

\* one case of a match statement: the pattern against the matched type, the
\* guard and the body; x is <<matchCase, matchType>>
checkMatchCase(errors, context, x) ==
    LET matchCase == x[1]
        Guard(g) == checkBooleanType(g.errors, g.type, matchCase.guard)
        Guarded(e) ==
            IF Defined(matchCase.guard)
            THEN Guard(Check("inferExpressionType", e, context, matchCase.guard))
            ELSE e
        Pattern(p) ==
            Guarded(checkTypeCompatibility(p.errors, p.type, x[2], matchCase.pattern))
    IN  CheckEach("checkStatement",
                  Pattern(Check("inferExpressionType", errors, context, matchCase.pattern)),
                  context, matchCase.body)

\* cases paired with the type of the matched expression
WithType(cases, type) == [i \in 1 .. Len(cases) |-> <<cases[i], type>>]

\* a node without a kind, as a declaration in a block is, matches no case
checkStatement(errors, context, stmt) ==
    LET kind == IF "kind" \in DOMAIN stmt THEN stmt.kind ELSE "undefined"
        loopContext == [context EXCEPT !.inLoop = TRUE]
        Condition(c) == checkBooleanType(c.errors, c.type, stmt.condition)
        Conditioned(e) ==
            IF Defined(stmt.condition)
            THEN Condition(Check("inferExpressionType", e, context, stmt.condition))
            ELSE e
        Collection(c) == checkIterableType(c.errors, c.type, stmt.collection)
        Matched(m) == CheckEach("checkMatchCase", m.errors, context,
                                WithType(stmt.cases, m.type))
        Returned(r) ==
            IF context.returnType # NoType
            THEN checkTypeCompatibility(r.errors, r.type, context.returnType, stmt.value)
            ELSE r.errors
    IN  CASE kind = "expression" ->
                IF Defined(stmt.expression)
                THEN Check("inferExpressionType", errors, context, stmt.expression).errors
                ELSE errors
          [] kind = "if" ->
                CheckEach("checkStatement",
                          CheckEach("checkStatement", Conditioned(errors), context,
                                    stmt.thenBody),
                          context, stmt.elseBody.items)
          [] kind = "for" ->
                CheckEach("checkStatement",
                          IF Defined(stmt.collection)
                          THEN Collection(Check("inferExpressionType", errors, context,
                                                stmt.collection))
                          ELSE errors,
                          loopContext, stmt.body)
          [] kind = "while" ->
                CheckEach("checkStatement", Conditioned(errors), loopContext, stmt.body)
          [] kind = "match" ->
                IF Defined(stmt.expression)
                THEN Matched(Check("inferExpressionType", errors, context, stmt.expression))
                ELSE errors
          [] kind = "return" ->
                IF Defined(stmt.value)
                THEN Returned(Check("inferExpressionType", errors, context, stmt.value))
                ELSE IF context.returnType # NoType /\ context.returnType.name # "void"
                THEN checkerAddError(errors, "Missing return value", <<>>, stmt)
                ELSE errors
          [] kind \in {"break", "continue"} ->
                IF context.inLoop THEN errors
                ELSE checkerAddError(errors, "statement outside of loop", <<kind>>, stmt)
          [] OTHER -> errors

\* this.<method>(x, context, uri): the call of one checking method from
\* another
Check(method, errors, context, x) ==
    CASE method = "inferExpressionType" -> inferExpressionType(errors, context, x)
      [] method = "checkStatement" -> checkStatement(errors, context, x)
      [] method = "checkMatchCase" -> checkMatchCase(errors, context, x)

\* the global context as the context argument of a check
GlobalContext(T) ==
    [variables |-> T.variables, types |-> T.types, returnType |-> NoType,
     inLoop |-> FALSE]

\* functionContext.variables.set(param.name, type) for each parameter
RECURSIVE ParameterVariables(_, _, _)
ParameterVariables(variables, types, parameters) ==
    IF parameters = <<>> THEN variables
    ELSE ParameterVariables(
             MapSet(variables, Head(parameters).name,
                    typeOfTypeExpression(types, Head(parameters).type)),
             types, Tail(parameters))

checkFunction(T, func) ==
    [T EXCEPT !.errors =
        CheckEach("checkStatement", T.errors,
                  [variables |-> ParameterVariables(T.variables, T.types, func.parameters),
                   types |-> T.types,
                   returnType |-> TypeOrVoid(T.types, func.returnType),
                   inLoop |-> FALSE],
                  func.body)]

\* the loops of checkStruct and checkEnum over the types of the fields
RECURSIVE FieldTypeLoop(_, _, _, _)
FieldTypeLoop(errors, types, fieldTypes, message) ==
    IF fieldTypes = <<>> THEN errors
    ELSE FieldTypeLoop(
             IF typeOfTypeExpression(types, Head(fieldTypes)).kind = "error"
             THEN checkerAddError(errors, message, <<Text(Head(fieldTypes).baseType)>>,
                                  Head(fieldTypes))
             ELSE errors,
             types, Tail(fieldTypes), message)

checkStruct(T, struct) ==
    [T EXCEPT !.errors =
        FieldTypeLoop(T.errors, T.types, TypesOf(struct.fields), "Invalid field type")]

checkEnum(T, enumDecl) ==
    [T EXCEPT !.errors =
        FieldTypeLoop(T.errors, T.types, VariantFieldTypes(enumDecl.variants),
                      "Invalid variant field type")]

\* the value is inferred for the expected type when no type is declared,
\* and inferred again for the actual type
checkVariable(T, variable) ==
    LET context == GlobalContext(T)
        Set(errors, expectedType) ==
            [T EXCEPT !.errors = errors,
                      !.variables = MapSet(@, variable.name, expectedType)]
        Actual(a, expectedType) ==
            Set(checkTypeCompatibility(a.errors, a.type, expectedType, variable.value),
                expectedType)
        Expected(e) ==
            IF Defined(variable.value)
            THEN Actual(Check("inferExpressionType", e.errors, context, variable.value),
                        e.type)
            ELSE Set(e.errors, e.type)
    IN  Expected(IF Defined(variable.varType)
                 THEN [errors |-> T.errors,
                       type |-> typeOfTypeExpression(T.types, variable.varType)]
                 ELSE IF Defined(variable.value)
                 THEN Check("inferExpressionType", T.errors, context, variable.value)
                 ELSE [errors |-> T.errors, type |-> createUnknownType])

checkNode(T, node) ==
    CASE node.type = "function" -> checkFunction(T, node)
      [] node.type = "struct" -> checkStruct(T, node)
      [] node.type = "enum" -> checkEnum(T, node)
      [] node.type = "variable" -> checkVariable(T, node)
      [] node.type = "statement" ->
            [T EXCEPT !.errors = Check("checkStatement", T.errors, GlobalContext(T), node)]
      [] OTHER -> T

\* paramTypes: the type of each parameter
ParameterTypes(types, parameters) ==
    [i \in 1 .. Len(parameters) |-> typeOfTypeExpression(types, parameters[i].type)]

collectFunctionType(T, func) ==
    [T EXCEPT !.functions =
        MapSet(@, func.name,
               [parameters |-> ParameterTypes(T.types, func.parameters),
                returnType |-> TypeOrVoid(T.types, func.returnType),
                isAsync |-> func.isAsync])]

\* struct.generics?.map(g => createGenericType(g.name, []))
GenericTypes(generics) ==
    IF generics.defined
    THEN SomeList([i \in 1 .. Len(generics.items) |->
                      createGenericType(Text(generics.items[i].name), <<>>)])
    ELSE NoList

\* collectStructType and collectEnumType
collectNamedType(T, decl, kind) ==
    [T EXCEPT !.types =
        MapSet(@, decl.name,
               [kind |-> kind, name |-> Text(decl.name),
                genericArgs |-> GenericTypes(decl.generics)])]

\* a statement node of kind function, struct or enum with a name
collectStatementTypes(T, stmt) ==
    CASE stmt.kind = "function" /\ "parameters" \in DOMAIN stmt /\ NameOrEmpty(stmt) # <<>> ->
            collectFunctionType(T,
                [name |-> stmt.name, parameters |-> stmt.parameters,
                 returnType |-> IF "returnType" \in DOMAIN stmt THEN stmt.returnType
                                ELSE NoNode,
                 isAsync |-> FALSE])
      [] stmt.kind \in {"struct", "enum"} /\ NameOrEmpty(stmt) # <<>> ->
            collectNamedType(T, [name |-> stmt.name, generics |-> NoList], stmt.kind)
      [] OTHER -> T

collectTypes(T, node) ==
    CASE node.type = "function" -> collectFunctionType(T, node)
      [] node.type \in {"struct", "enum"} -> collectNamedType(T, node, node.type)
      [] node.type = "statement" -> collectStatementTypes(T, node)
      [] OTHER -> T

\* the two loops of checkTypes
RECURSIVE CollectTypesLoop(_, _)
CollectTypesLoop(T, ast) ==
    IF ast = <<>> THEN T ELSE CollectTypesLoop(collectTypes(T, Head(ast)), Tail(ast))

RECURSIVE CheckNodeLoop(_, _)
CheckNodeLoop(T, ast) ==
    IF ast = <<>> THEN T ELSE CheckNodeLoop(checkNode(T, Head(ast)), Tail(ast))

\* checkTypes: the checker after the call; its errors are what is returned
checkTypes(T, ast) == CheckNodeLoop(CollectTypesLoop([T EXCEPT !.errors = <<>>], ast), ast)

-----------------------------------------------------------------------------
(* SemanticAnalyzer.analyze *)

\* the prologue of analyze
AnalyzeReset(A) ==
    [A EXCEPT !.errors = <<>>, !.symbolTable = <<>>, !.functionScopes = <<>>]

RECURSIVE CollectDeclarationsLoop(_, _, _)
CollectDeclarationsLoop(A, ast, uri) ==
    IF ast = <<>> THEN A
    ELSE CollectDeclarationsLoop(collectDeclarations(A, Head(ast), uri), Tail(ast), uri)

\* the third pass: the errors of the type checker are appended as semantic
\* errors of code type_error
TypeCheckPass(A, ast, uri) ==
    LET Converted(T) ==
            [A EXCEPT !.typeChecker = T,
                      !.errors = @ \o
                          [i \in 1 .. Len(T.errors) |->
                              [message |-> T.errors[i].message, name |-> T.errors[i].names,
                               range |-> [start |-> [line |-> T.errors[i].line - 1,
                                                     character |-> T.errors[i].column - 1],
                                          end |-> [line |-> T.errors[i].line - 1,
                                                   character |-> T.errors[i].column]],
                               severity |-> SeverityError, code |-> "type_error"]]]
    IN  Converted(checkTypes(A.typeChecker, ast))

\* what analyze returns: the errors as diagnostics
Diagnostics(A) ==
    [i \in 1 .. Len(A.errors) |->
        [severity |-> A.errors[i].severity, range |-> A.errors[i].range,
         message |-> A.errors[i].message, name |-> A.errors[i].name,
         source |-> "vextlang", code |-> A.errors[i].code]]

\* analyze as a whole: the analyzer after the call
analyze(A, ast, uri) ==
    TypeCheckPass(
        AnalyzeEach("analyzeNode", CollectDeclarationsLoop(AnalyzeReset(A), ast, uri),
                    ast, uri),
        ast, uri)

-----------------------------------------------------------------------------
(* Idle values of the components a specification does not run *)

NoRef == [source |-> <<>>, between |-> FALSE, again |-> FALSE,
          result |-> [outcome |-> "none"]]

NewParser == [tokens |-> <<>>, current |-> 0, errors |-> <<>>]

ParserIdle ==
    /\ parser = NewParser
    /\ pSource = <<>>
    /\ pAst = <<>>
    /\ pPc = "idle"
    /\ pCaught = "none"
    /\ pRecursed = 0
    /\ pRef = NoRef

LexerIdle ==
    /\ lexer = NewLexer(<<>>)
    /\ lxTokens = <<>>
    /\ lxLast = NoToken
    /\ lxPc = "idle"

NewSymbolTable == [symbols |-> <<>>, globalSymbols |-> <<>>]

NoReply == [method |-> "none", result |-> <<>>]

\* the state of the server when its module starts to run; the parser and
\* the analyzer are new
ServerStart ==
    /\ symbolTable = NewSymbolTable
    /\ documents = <<>>
    /\ sPc = "start"
    /\ sReply = NoReply
    /\ sPending = <<>>

\* no function is called on its own
FunctionIdle ==
    /\ fArgs = <<>>
    /\ fResult = <<>>
    /\ fPc = "idle"

\* the debug session as constructed: no debug process
DebugIdle ==
    /\ dSession = [debugProcess |-> 0]
    /\ dProcesses = <<>>
    /\ dSent = <<>>

AnalyzerIdle ==
    /\ analyzer = NewAnalyzer
    /\ aUri = <<>>
    /\ aPc = "idle"
    /\ aIndex = 0
    /\ aResult = <<>>
    /\ aFresh = <<>>
    /\ aRuns = 0

-----------------------------------------------------------------------------
(* The lexer run step by step: one action per iteration of tokenize's loop *)

\* the characters the enumerated sources are made of
LexAlphabet == {"\n", "a", "1", "\"", "<", "=", "/", "*", "#"}

RECURSIVE SeqsUpTo(_, _)
SeqsUpTo(S, n) ==
    IF n = 0 THEN {<<>>}
    ELSE LET shorter == SeqsUpTo(S, n - 1)
         IN  shorter \cup {Append(s, c) : s \in {t \in shorter : Len(t) = n - 1}, c \in S}

\* longer sources that reach the character, number, escape and keyword paths
LexSamples ==
    { <<"'", "a", "'", " ">>, <<"'", "\\", "n", "'">>, <<"'", "a", "b">>, <<"'">>,
      <<"1", ".", "5", "e", "+", "3", " ">>, <<"1", "e", "5">>, <<"2", ".">>,
      <<"\"", "a", "\\", "\"", "b", "\"", " ">>, <<"\"", "a", "\\">>,
      <<"a", " ", "\"", "\\", "\"", "\n">>,
      <<"l", "e", "t", " ", "x", "\t", "=", "=", "\r", "\n">>,
      <<"t", "r", "u", "e", ";">>,
      <<"/", "*", "/", "*", "a", "*", "/", "*", "/", " ">>,
      <<"a", "<", "<", "=", "1", " ">>, <<"a", "-", ">", ":", ":", "?", "@", "\n">> }

LexSources == SeqsUpTo(LexAlphabet, MaxSrcLen) \cup LexSamples

LexInit ==
    /\ \E source \in LexSources : lexer = NewLexer(source)
    /\ lxTokens = <<>>
    /\ lxLast = NoToken
    /\ lxPc = "loop"
    /\ ParserIdle
    /\ AnalyzerIdle
    /\ ServerStart
    /\ FunctionIdle
    /\ DebugIdle

\* one iteration of the while loop of tokenize
LexStep ==
    /\ lxPc = "loop"
    /\ TokenizeContinues(lexer)
    /\ LET r == nextToken(lexer)
       IN  /\ lexer' = r.lexer
           /\ lxLast' = r.token
           /\ lxTokens' = IF TokenKept(r.token) THEN Append(lxTokens, r.token) ELSE lxTokens
           /\ lxPc' = IF r.token.type = "eof" THEN "done" ELSE "loop"
    /\ UNCHANGED <<parVars, anaVars, srvVars, fnVars, dbgVars>>

\* the loop condition fails: tokenize returns {tokens, errors}
LexReturn ==
    /\ lxPc = "loop"
    /\ ~TokenizeContinues(lexer)
    /\ lxPc' = "done"
    /\ UNCHANGED <<lexer, lxTokens, lxLast>>
    /\ UNCHANGED <<parVars, anaVars, srvVars, fnVars, dbgVars>>

LexNext == LexStep \/ LexReturn

SpecLexer == LexInit /\ [][LexNext]_vars

-----------------------------------------------------------------------------
(* Parser.parse on one Parser object, call after call.  A call is run in   *)
(* steps: the prologue (ParseBegin), one action per iteration of the       *)
(* while loop, and the return or the escape of an exception.               *)

ConvertLexerErrors(errors) ==
    [i \in 1 .. Len(errors) |->
        [message |-> errors[i].message, line |-> errors[i].line,
         column |-> errors[i].column, offset |-> errors[i].offset]]

\* a prologue that appends the lexer's errors to the errors of the last call
ParseResetKeepsErrors(P, lexResult) ==
    [tokens |-> lexResult.tokens, current |-> 0,
     errors |-> P.errors \o ConvertLexerErrors(lexResult.errors)]

\* the prologue of parse: the fields of the Parser object after it
ParseReset(P, lexResult) ==
    [tokens |-> lexResult.tokens, current |-> 0,
     errors |-> ConvertLexerErrors(lexResult.errors)]

StateOf(P) == [NewParserState(P.tokens, P.errors) EXCEPT !.current = P.current]

FieldsOf(S) == [tokens |-> S.tokens, current |-> S.current, errors |-> S.errors]

\* what the caller of parse gets
ParseResult ==
    IF pPc = "returned"
    THEN [outcome |-> "returned", ast |-> pAst, errors |-> parser.errors]
    ELSE [outcome |-> pPc]

\* the source texts: lexemes separated by blanks, with or without a final newline
ParseLexemes ==
    { <<"a">>, <<"1">>, <<"+">>, <<"-">>, <<"(">>, <<")">>, <<";">>, <<"=">>,
      <<"{">>, <<"l", "e", "t">>, <<"\"", "s">>, <<"/", "*", "c", "*", "/">> }

RECURSIVE JoinLexemes(_)
JoinLexemes(lexemes) ==
    IF lexemes = <<>> THEN <<>>
    ELSE IF Len(lexemes) = 1 THEN lexemes[1]
    ELSE lexemes[1] \o <<" ">> \o JoinLexemes(Tail(lexemes))

\* the text of a word of a program
Word(w) ==
    CASE w = "let" -> <<"l", "e", "t">>
      [] w = "const" -> <<"c", "o", "n", "s", "t">>
      [] w = "fn" -> <<"f", "n">>
      [] w = "struct" -> <<"s", "t", "r", "u", "c", "t">>
      [] w = "enum" -> <<"e", "n", "u", "m">>
      [] w = "if" -> <<"i", "f">>
      [] w = "while" -> <<"w", "h", "i", "l", "e">>
      [] w = "true" -> <<"t", "r", "u", "e">>
      [] w = "false" -> <<"f", "a", "l", "s", "e">>
      [] w = "&&" -> <<"&", "&">>
      [] w = "==" -> <<"=", "=">>
      [] w = "->" -> <<"-", ">">>
      [] w = "return" -> <<"r", "e", "t", "u", "r", "n">>
      [] w = "break" -> <<"b", "r", "e", "a", "k">>
      [] w = "continue" -> <<"c", "o", "n", "t", "i", "n", "u", "e">>
      [] w = "else" -> <<"e", "l", "s", "e">>
      [] w = "match" -> <<"m", "a", "t", "c", "h">>
      [] w = "for" -> <<"f", "o", "r">>
      [] w = "in" -> <<"i", "n">>
      [] w = "Xy" -> <<"X", "y">>
      [] w = "MAX_N" -> <<"M", "A", "X", "_", "N">>
      [] w = "_x" -> <<"_", "x">>
      [] OTHER -> <<w>>

WordsOf(words) == JoinLexemes([i \in 1 .. Len(words) |-> Word(words[i])])

\* the words separated by blanks, and a final newline
Program(words) ==
    JoinLexemes([i \in 1 .. Len(words) |-> Word(words[i])]) \o <<"\n">>

\* longer texts: unary and parenthesized expressions, and the declarations
\* of the README's syntax reference
UnaryPrograms ==
    { Program(<<"-", "a", ";">>), Program(<<"-", "f", "(", ")", ";">>),
      Program(<<"let", "x", "=", "-", "1", ";">>) }

ParenthesizedPrograms ==
    { Program(<<"(", "a", ")", ";">>), Program(<<"a", "+", "(", "1", ")", ";">>) }

\* the declarations of the README's syntax reference, as written there
ReadmeLet ==
    << "l", "e", "t", " ", "x", ":", " ", "i", "n", "t", " ", "=", " ", "4",
       "2", ";", "\n" >>

ReadmeConst ==
    << "c", "o", "n", "s", "t", " ", "P", "I", ":", " ", "f", "l", "o", "a",
       "t", " ", "=", " ", "3", ".", "1", "4", "1", "5", "9", ";", "\n" >>

ReadmeFn ==
    << "f", "n", " ", "a", "d", "d", "(", "a", ":", " ", "i", "n", "t", ",",
       " ", "b", ":", " ", "i", "n", "t", ")", " ", "-", ">", " ", "i", "n",
       "t", " ", "{", "\n", " ", " ", " ", " ", "r", "e", "t", "u", "r", "n",
       " ", "a", " ", "+", " ", "b", ";", "\n", "}", "\n" >>

\* the primitive type names and the built-in type names
BuiltinTypeNames ==
    { <<"i", "n", "t">>, <<"f", "l", "o", "a", "t">>, <<"b", "o", "o", "l">>,
      <<"s", "t", "r", "i", "n", "g">>, <<"c", "h", "a", "r">>, <<"v", "o", "i", "d">>,
      <<"O", "p", "t", "i", "o", "n">>, <<"R", "e", "s", "u", "l", "t">>,
      <<"V", "e", "c">> }

\* let x: <name> = 1;
AnnotatedLet(name) ==
    <<"l", "e", "t", " ", "x", ":", " ">> \o name \o <<" ", "=", " ", "1", ";", "\n">>

ReadmePrograms ==
    { ReadmeLet, ReadmeConst, ReadmeFn } \cup { AnnotatedLet(name) : name \in BuiltinTypeNames }

\* the same declaration with the name of a user type
UserTypePrograms == { AnnotatedLet(<<"T">>) }

ParseSamples ==
    UnaryPrograms \cup ParenthesizedPrograms \cup ReadmePrograms \cup UserTypePrograms

ParseSources ==
    { JoinLexemes(lexemes) \o trailer :
        lexemes \in SeqsUpTo(ParseLexemes, MaxLexemes), trailer \in {<<>>, <<"\n">>} }
        \cup ParseSamples

\* the texts parsed between two parses of the same text
OtherSources == { <<"a", ";", "\n">>, <<")">> }

\* the call of parse: its prologue
ParseCall(source) ==
    /\ parser' = ParseReset(parser, tokenize(source))
    /\ pSource' = source
    /\ pAst' = <<>>
    /\ pPc' = "loop"
    /\ pCaught' = "none"
    /\ pRecursed' = 0
    /\ pRef' = IF pRef = NoRef THEN pRef
              ELSE IF source = pRef.source
              THEN [pRef EXCEPT !.again = TRUE]
              ELSE [pRef EXCEPT !.between = TRUE, !.again = FALSE]

ParseBegin(source) ==
    /\ pPc \in {"idle", "returned", "thrown"}
    /\ IF pRef = NoRef THEN source \in ParseSources
       ELSE source \in {pRef.source} \cup OtherSources
    /\ ParseCall(source)

\* the result of the call that completes, kept if it is the first
Completed(outcome) ==
    pRef' = IF pRef = NoRef
            THEN [source |-> pSource, between |-> FALSE, again |-> FALSE,
                  result |-> IF outcome = "returned"
                             THEN [outcome |-> "returned", ast |-> pAst,
                                   errors |-> parser.errors]
                             ELSE [outcome |-> outcome]]
            ELSE pRef

\* one iteration of while (!isAtEnd()) { try parseTopLevel catch synchronize }
ParseLoopStep ==
    /\ pPc = "loop"
    /\ PeekDefined(StateOf(parser))
    /\ ~isAtEnd(StateOf(parser))
    /\ LET Caught(r, S2) ==
               /\ pCaught' = r.s.thrown
               /\ parser' = FieldsOf(S2)
               /\ pAst' = IF r.s.thrown # "none" THEN pAst ELSE Append(pAst, r.node)
               /\ pRecursed' = pRecursed + r.s.recursed
               /\ pPc' = IF S2.thrown # "none" THEN "thrown" ELSE "loop"
               /\ IF S2.thrown # "none" THEN Completed("thrown") ELSE UNCHANGED pRef
           Tried(r) ==
               Caught(r, IF r.s.thrown # "none" THEN synchronize(Throw(r.s, "none")) ELSE r.s)
       IN  Tried(Invoke("parseTopLevel", StateOf(parser), <<>>))
    /\ UNCHANGED pSource

\* the loop condition reads the type of the undefined value tokens[current]
ParseConditionThrows ==
    /\ pPc = "loop"
    /\ ~PeekDefined(StateOf(parser))
    /\ pPc' = "thrown"
    /\ Completed("thrown")
    /\ UNCHANGED <<parser, pSource, pAst, pCaught, pRecursed>>

ParseReturn ==
    /\ pPc = "loop"
    /\ PeekDefined(StateOf(parser))
    /\ isAtEnd(StateOf(parser))
    /\ pPc' = "returned"
    /\ Completed("returned")
    /\ UNCHANGED <<parser, pSource, pAst, pCaught, pRecursed>>

ParseInit ==
    ParserIdle /\ LexerIdle /\ AnalyzerIdle /\ ServerStart /\ FunctionIdle /\ DebugIdle

ParseNext ==
    \/ \E source \in ParseSources \cup OtherSources :
          ParseBegin(source) /\ UNCHANGED <<lexVars, anaVars, srvVars, fnVars, dbgVars>>
    \/ ParseLoopStep /\ UNCHANGED <<lexVars, anaVars, srvVars, fnVars, dbgVars>>
    \/ ParseConditionThrows /\ UNCHANGED <<lexVars, anaVars, srvVars, fnVars, dbgVars>>
    \/ ParseReturn /\ UNCHANGED <<lexVars, anaVars, srvVars, fnVars, dbgVars>>

SpecParser == ParseInit /\ [][ParseNext]_vars

-----------------------------------------------------------------------------
(* The server validating documents one after another with its one Parser   *)
(* and its one SemanticAnalyzer: parse, then analyze in steps (the first   *)
(* pass a node at a time, the second pass, the type check).                *)

\* the documents validated in one behaviour
MaxRuns == 2

\* programs with no syntax, semantic or type violation
ValidPrograms ==
    { Program(<<"let", "b", "=", "true", ";", "if", "(", "b", ")", "{", "}">>),
      Program(<<"let", "x", "=", "1", ";", "x", "+", "1", ";">>),
      Program(<<"fn", "f", "(", ")", "{", "}", "f", "(", ")", ";">>),
      Program(<<"struct", "T", "{", "}",
                "fn", "g", "(", "a", ":", "T", ")", "{", "a", ";", "}">>),
      Program(<<"fn", "h", "(", ")", "{", "let", "v", "=", "true", ";", "v", ";", "}">>),
      Program(<<"let", "x", "=", "true", ";">>) }

\* programs whose one violation is one use of the undeclared name z: as a
\* logical operand, a callee, a condition, an assignment side, an
\* arithmetic operand
UndefinedUsePrograms ==
    { Program(<<"z", "&&", "true", ";">>),
      Program(<<"z", "(", ")", ";">>),
      Program(<<"if", "(", "z", ")", "{", "}">>),
      Program(<<"while", "(", "z", ")", "{", "}">>),
      Program(<<"z", "=", "true", ";">>),
      Program(<<"z", "+", "1", ";">>),
      Program(<<"z", ";">>) }

\* programs that declare a name twice
RedeclaringPrograms ==
    { Program(<<"let", "x", "=", "true", ";", "let", "x", "=", "false", ";">>),
      Program(<<"fn", "x", "(", ")", "{", "}", "let", "x", "=", "true", ";">>),
      Program(<<"struct", "S", "{", "}", "enum", "S", "{", "}">>),
      Program(<<"let", "s", "=", "true", ";", "struct", "s", "{", "}">>),
      Program(<<"const", "c", "=", "true", ";", "const", "c", "=", "true", ";">>),
      Program(<<"enum", "E", "{", "}",
                "fn", "E", "(", "p", ":", "T", ",", "p", ":", "T", ")", "{", "}">>) }

\* a text that uses the name another document declares, and a text with no
\* whitespace at its end
OtherPrograms == { Program(<<"x", ";">>), <<"x", ";">> }

\* functions that return without a value, each with the number of its
\* `return;` statements that are in a function of a declared type other
\* than void
ReturnPrograms ==
    { [text |-> Program(<<"struct", "T", "{", "}",
                          "fn", "f", "(", ")", "->", "T", "{", "return", ";", "}">>),
       missing |-> 1],
      [text |-> Program(<<"struct", "T", "{", "}",
                          "fn", "f", "(", ")", "->", "T", "{",
                              "return", ";", "return", ";", "}">>),
       missing |-> 2],
      [text |-> Program(<<"struct", "T", "{", "}",
                          "fn", "f", "(", ")", "->", "T", "{",
                              "if", "(", "true", ")", "{", "return", ";", "}",
                              "else", "{", "return", ";", "}", "}">>),
       missing |-> 2],
      [text |-> Program(<<"struct", "T", "{", "}",
                          "fn", "f", "(", ")", "->", "T", "{",
                              "while", "(", "true", ")", "{", "return", ";", "}", "}">>),
       missing |-> 1],
      [text |-> Program(<<"struct", "T", "{", "}",
                          "fn", "f", "(", ")", "->", "T", "{",
                              "fn", "g", "(", ")", "->", "T", "{", "return", ";", "}",
                              "}">>),
       missing |-> 1],
      [text |-> Program(<<"fn", "f", "(", ")", "{", "return", ";", "}">>),
       missing |-> 0],
      [text |-> Program(<<"fn", "f", "(", ")", "{",
                              "if", "(", "true", ")", "{", "return", ";", "}", "}">>),
       missing |-> 0] }

\* break and continue statements, each program with the number of them that
\* no body of a for or while loop encloses
LoopExitPrograms ==
    { [text |-> Program(<<"break", ";">>), outside |-> 1],
      [text |-> Program(<<"continue", ";">>), outside |-> 1],
      [text |-> Program(<<"while", "(", "true", ")", "{", "break", ";", "}">>),
       outside |-> 0],
      [text |-> Program(<<"while", "(", "true", ")", "{",
                              "if", "(", "true", ")", "{", "break", ";", "}",
                              "else", "{", "continue", ";", "}", "}">>),
       outside |-> 0],
      [text |-> Program(<<"if", "(", "true", ")", "{", "break", ";", "}",
                          "else", "{", "continue", ";", "}">>),
       outside |-> 2],
      [text |-> Program(<<"let", "v", "=", "true", ";",
                          "for", "i", "in", "v", "{", "continue", ";", "}",
                          "break", ";">>),
       outside |-> 1],
      [text |-> Program(<<"match", "true", "{", "true", "->", "{", "break", ";", "}", "}">>),
       outside |-> 1],
      [text |-> Program(<<"while", "(", "true", ")", "{",
                              "match", "true", "{", "true", "->", "{", "break", ";", "}", "}",
                              "}">>),
       outside |-> 0],
      [text |-> Program(<<"fn", "f", "(", ")", "{", "break", ";", "}">>), outside |-> 1],
      [text |-> Program(<<"fn", "f", "(", ")", "{",
                              "fn", "g", "(", ")", "{", "break", ";", "}", "}">>),
       outside |-> 1],
      [text |-> Program(<<"{", "break", ";", "}">>), outside |-> 1] }

\* declarations of one variable or constant with an upper-case, a
\* lower-case, a mixed-case and an UPPER_SNAKE_CASE name
NamingPrograms ==
    { Program(<<"let", "X", "=", "5", ";">>),
      Program(<<"let", "x", "=", "5", ";">>),
      Program(<<"const", "x", "=", "5", ";">>),
      Program(<<"const", "X", "=", "5", ";">>),
      Program(<<"const", "Xy", "=", "5", ";">>),
      Program(<<"const", "_x", "=", "5", ";">>),
      Program(<<"const", "MAX_N", "=", "5", ";">>),
      Program(<<"let", "x", "=", "5", ";", "const", "x", "=", "5", ";">>) }

\* type annotations that name the undeclared type U or u, one a program: a
\* parameter type, a return type, a struct field type, an enum field type,
\* a variable type, a generic argument, a generic constraint
UnknownTypePrograms ==
    { Program(<<"fn", "g", "(", "a", ":", "U", ")", "{", "}">>),
      Program(<<"fn", "g", "(", ")", "->", "U", "{", "}">>),
      Program(<<"struct", "S", "{", "f", ":", "U", "}">>),
      Program(<<"enum", "E", "{", "V", "(", "f", ":", "U", ")", "}">>),
      Program(<<"let", "x", ":", "U", "=", "true", ";">>),
      Program(<<"struct", "T", "{", "}", "let", "x", ":", "T", "<", "U", ">", "=", "true", ";">>),
      Program(<<"struct", "S", "<", "G", ":", "U", ">", "{", "}">>),
      Program(<<"fn", "g", "(", "a", ":", "u", ")", "{", "}">>),
      Program(<<"let", "x", ":", "u", "=", "true", ";">>),
      Program(<<"struct", "S", "<", "G", ":", "u", ">", "{", "}">>) }

\* documents with one semantic error, each with the error's code and the
\* zero-based line and column at which the offending declaration or
\* expression starts
PositionedPrograms ==
    { [text |-> Program(<<"const", "x", "=", "5", ";">>),
       code |-> "const_naming_convention", line |-> 0, character |-> 0],
      [text |-> Program(<<"let", "a", "=", "true", ";">>)
                    \o Program(<<"const", "x", "=", "5", ";">>),
       code |-> "const_naming_convention", line |-> 1, character |-> 0],
      [text |-> Program(<<"let", "x", "=", "true", ";">>)
                    \o Program(<<"let", "x", "=", "false", ";">>),
       code |-> "duplicate_variable", line |-> 1, character |-> 0],
      [text |-> Program(<<"let", "a", "=", "true", ";">>)
                    \o Program(<<"a", "=", "z", ";">>),
       code |-> "undefined_identifier", line |-> 1, character |-> 4],
      [text |-> Program(<<"let", "a", "=", "true", ";">>) \o <<"\n">>
                    \o Program(<<"let", "x", ":", "u", "=", "true", ";">>),
       code |-> "unknown_type", line |-> 2, character |-> 8] }

Texts(programs) == { p.text : p \in programs }

AnalysisSources ==
    ValidPrograms \cup UndefinedUsePrograms \cup RedeclaringPrograms \cup OtherPrograms
        \cup Texts(ReturnPrograms) \cup Texts(LoopExitPrograms) \cup NamingPrograms
        \cup UnknownTypePrograms \cup Texts(PositionedPrograms)

DocumentUris == { <<"a">>, <<"b">> }

\* validateTextDocument starts: parser.parse(text)
OpenDocument(source, uri) ==
    /\ aRuns < MaxRuns
    /\ pPc \in {"idle", "thrown"} \/ (pPc = "returned" /\ aPc = "done")
    /\ ParseCall(source)
    /\ aUri' = uri
    /\ aPc' = "parse"
    /\ aRuns' = aRuns + 1
    /\ UNCHANGED <<analyzer, aIndex, aResult, aFresh>>

\* analyzer.analyze(parseResult.ast, uri) starts: its prologue
AnalyzeBegin ==
    /\ pPc = "returned"
    /\ aPc = "parse"
    /\ analyzer' = AnalyzeReset(analyzer)
    /\ aPc' = "collect"
    /\ aIndex' = 1
    /\ UNCHANGED <<aUri, aResult, aFresh, aRuns>>

\* one iteration of the loop of the first pass
CollectStep ==
    /\ aPc = "collect"
    /\ aIndex <= Len(pAst)
    /\ analyzer' = collectDeclarations(analyzer, pAst[aIndex], aUri)
    /\ aIndex' = aIndex + 1
    /\ UNCHANGED <<aUri, aPc, aResult, aFresh, aRuns>>

\* the loop of the second pass
AnalyzeSemantics ==
    /\ aPc = "collect"
    /\ aIndex > Len(pAst)
    /\ analyzer' = AnalyzeEach("analyzeNode", analyzer, pAst, aUri)
    /\ aPc' = "check"
    /\ UNCHANGED <<aUri, aIndex, aResult, aFresh, aRuns>>

\* the third pass and the return of analyze
CheckTypesStep ==
    /\ aPc = "check"
    /\ LET Returned(A) ==
               /\ analyzer' = A
               /\ aResult' = Diagnostics(A)
       IN  Returned(TypeCheckPass(analyzer, pAst, aUri))
    /\ aFresh' = Diagnostics(analyze(NewAnalyzer, pAst, aUri))
    /\ aPc' = "done"
    /\ UNCHANGED <<aUri, aIndex, aRuns>>

\* a node's position fields, for a node the caller of analyze built
At(fields, start, end, line, column) ==
    fields @@ [range |-> [start |-> start, end |-> end],
               line |-> line, column |-> column]

\* a type expression naming a primitive type at an offset of the first line
PrimitiveAt(name, offset) ==
    At([type |-> "type_expression", baseType |-> name,
        genericArgs |-> NoList, isReference |-> FALSE, isMutable |-> FALSE],
       offset, offset + Len(name), 1, offset + 1)

\* the type expression `int` at an offset of the first line
IntAt(offset) == PrimitiveAt(<<"i", "n", "t">>, offset)

\* the declaration and the call of `add`, as the AST interfaces describe
\*     fn add(a: int, b: int) -> int { return a + b; }
\*     add(1, 2);
AddAst ==
    << At([type |-> "function", name |-> <<"a", "d", "d">>,
           parameters |-> << [name |-> <<"a">>, type |-> IntAt(10)],
                             [name |-> <<"b">>, type |-> IntAt(18)] >>,
           returnType |-> IntAt(26),
           body |-> << At([type |-> "statement", kind |-> "return",
                           value |-> BinaryNode(<<"+">>,
                               At([type |-> "expression", kind |-> "identifier",
                                   value |-> <<"a">>], 39, 40, 1, 40),
                               At([type |-> "expression", kind |-> "identifier",
                                   value |-> <<"b">>], 43, 44, 1, 44))],
                          32, 45, 1, 33) >>,
           isAsync |-> FALSE], 0, 47, 1, 1),
       At([type |-> "statement", kind |-> "expression",
           expression |->
               At([type |-> "expression", kind |-> "call",
                   left |-> At([type |-> "expression", kind |-> "identifier",
                                value |-> <<"a", "d", "d">>], 48, 51, 2, 1),
                   value |-> << At([type |-> "expression", kind |-> "literal",
                                    value |-> <<"1">>], 52, 53, 2, 5),
                                At([type |-> "expression", kind |-> "literal",
                                    value |-> <<"2">>], 55, 56, 2, 8) >>],
                  48, 57, 2, 1)], 48, 57, 2, 1) >>

\* fn f() -> <name> { return; } with a primitive type name
ReturnsNothingAst(name) ==
    << At([type |-> "function", name |-> <<"f">>, parameters |-> <<>>,
           returnType |-> PrimitiveAt(name, 10),
           body |-> << At([type |-> "statement", kind |-> "return", value |-> NoNode],
                          13 + Len(name), 20 + Len(name), 1, 14 + Len(name)) >>,
           isAsync |-> FALSE], 0, 22 + Len(name), 1, 1) >>

GivenAsts ==
    { AddAst, ReturnsNothingAst(<<"i", "n", "t">>), ReturnsNothingAst(<<"v", "o", "i", "d">>) }

\* analyzer.analyze(ast, uri) called with an AST its caller built
AnalyzeGiven(ast, uri) ==
    /\ aRuns < MaxRuns
    /\ pPc \in {"idle", "thrown"} \/ (pPc = "returned" /\ aPc = "done")
    /\ pSource' = <<>>
    /\ pAst' = ast
    /\ pPc' = "returned"
    /\ pCaught' = "none"
    /\ pRecursed' = 0
    /\ aUri' = uri
    /\ aPc' = "parse"
    /\ aRuns' = aRuns + 1
    /\ UNCHANGED <<parser, pRef, analyzer, aIndex, aResult, aFresh>>

AnalysisInit ==
    ParserIdle /\ LexerIdle /\ AnalyzerIdle /\ ServerStart /\ FunctionIdle /\ DebugIdle

AnalysisNext ==
    \/ \E source \in AnalysisSources, uri \in DocumentUris :
          OpenDocument(source, uri) /\ UNCHANGED <<lexVars, srvVars, fnVars, dbgVars>>
    \/ \E ast \in GivenAsts, uri \in DocumentUris :
          AnalyzeGiven(ast, uri) /\ UNCHANGED <<lexVars, srvVars, fnVars, dbgVars>>
    \/ ParseLoopStep /\ UNCHANGED <<lexVars, anaVars, srvVars, fnVars, dbgVars>>
    \/ ParseConditionThrows /\ UNCHANGED <<lexVars, anaVars, srvVars, fnVars, dbgVars>>
    \/ ParseReturn /\ UNCHANGED <<lexVars, anaVars, srvVars, fnVars, dbgVars>>
    \/ AnalyzeBegin /\ UNCHANGED <<lexVars, parVars, srvVars, fnVars, dbgVars>>
    \/ CollectStep /\ UNCHANGED <<lexVars, parVars, srvVars, fnVars, dbgVars>>
    \/ AnalyzeSemantics /\ UNCHANGED <<lexVars, parVars, srvVars, fnVars, dbgVars>>
    \/ CheckTypesStep /\ UNCHANGED <<lexVars, parVars, srvVars, fnVars, dbgVars>>

SpecAnalysis == AnalysisInit /\ [][AnalysisNext]_vars

-----------------------------------------------------------------------------
(* SymbolTable, the table the request handlers of the server read.  A Map  *)
(* is the sequence of its entries in insertion order; an optional field of *)
(* a Symbol that is not set is left out of the record; a string built from *)
(* a template is the sequence of its pieces.                                *)

EntryHas(map, key) == \E i \in 1 .. Len(map) : map[i].key = key

EntryGet(map, key) == map[CHOOSE i \in 1 .. Len(map) : map[i].key = key].value

\* Map.set: the entry of a key that is present keeps its place
EntrySet(map, key, value) ==
    IF EntryHas(map, key)
    THEN [i \in 1 .. Len(map) |->
             IF map[i].key = key THEN [key |-> key, value |-> value] ELSE map[i]]
    ELSE Append(map, [key |-> key, value |-> value])

EntryDelete(map, key) == SelectSeq(map, LAMBDA entry : entry.key # key)

NoSymbol == [name |-> <<>>, kind |-> "none"]

startsWith(text, prefix) ==
    Len(prefix) <= Len(text) /\ SubSeq(text, 1, Len(prefix)) = prefix

addSymbol(T, symbol) ==
    [T EXCEPT !.symbols = EntrySet(@, SymbolKey(symbol.uri, symbol.name), symbol)]

addGlobalSymbol(T, symbol) ==
    [T EXCEPT !.globalSymbols = EntrySet(@, symbol.name, symbol)]

getSymbol(T, name, uri) ==
    IF EntryHas(T.symbols, SymbolKey(uri, name))
    THEN EntryGet(T.symbols, SymbolKey(uri, name))
    ELSE IF EntryHas(T.globalSymbols, name) THEN EntryGet(T.globalSymbols, name)
    ELSE NoSymbol

\* text.toLowerCase(), on the letters of the alphabet of the model
LowerOf(char) ==
    CASE char = "A" -> "a" [] char = "B" -> "b" [] char = "C" -> "c"
      [] char = "D" -> "d" [] char = "E" -> "e" [] char = "F" -> "f"
      [] char = "G" -> "g" [] char = "H" -> "h" [] char = "I" -> "i"
      [] char = "J" -> "j" [] char = "K" -> "k" [] char = "L" -> "l"
      [] char = "M" -> "m" [] char = "N" -> "n" [] char = "O" -> "o"
      [] char = "P" -> "p" [] char = "Q" -> "q" [] char = "R" -> "r"
      [] char = "S" -> "s" [] char = "T" -> "t" [] char = "U" -> "u"
      [] char = "V" -> "v" [] char = "W" -> "w" [] char = "X" -> "x"
      [] char = "Y" -> "y" [] char = "Z" -> "z" [] OTHER -> char

toLowerCase(text) == [i \in 1 .. Len(text) |-> LowerOf(text[i])]

includes(text, part) ==
    \E i \in 0 .. Len(text) - Len(part) : SubSeq(text, i + 1, i + Len(part)) = part

\* text.split('\n')
RECURSIVE SplitLines(_)
SplitLines(text) ==
    IF \A i \in 1 .. Len(text) : text[i] # "\n" THEN <<text>>
    ELSE LET at == CHOOSE i \in 1 .. Len(text) :
                       text[i] = "\n" /\ \A j \in 1 .. i - 1 : text[j] # "\n"
         IN  <<SubSeq(text, 1, at - 1)>> \o SplitLines(SubSeq(text, at + 1, Len(text)))

\* lineText.split(/\s+/): a run of white space separates two words
RECURSIVE SplitWords(_)
SplitWords(lineText) ==
    IF \A i \in 1 .. Len(lineText) : ~isWhitespace(lineText[i]) THEN <<lineText>>
    ELSE LET at == CHOOSE i \in 1 .. Len(lineText) :
                       isWhitespace(lineText[i])
                           /\ \A j \in 1 .. i - 1 : ~isWhitespace(lineText[j])
             rest == { i \in at + 1 .. Len(lineText) : ~isWhitespace(lineText[i]) }
             next == IF rest = {} THEN Len(lineText) + 1
                     ELSE CHOOSE i \in rest : \A j \in rest : i <= j
         IN  <<SubSeq(lineText, 1, at - 1)>>
                 \o SplitWords(SubSeq(lineText, next, Len(lineText)))

NoWord == [found |-> FALSE, word |-> <<>>]

\* before.match(/[a-zA-Z_][a-zA-Z0-9_]*$/) and after.match(/^[a-zA-Z0-9_]*/)
getWordAtOffset(offset, text) ==
    LET starts == { i \in 1 .. offset :
                       /\ isIdentifierStart(text[i])
                       /\ \A j \in i .. offset : isIdentifierPart(text[j]) }
        first == CHOOSE i \in starts : \A j \in starts : i <= j
        stops == { i \in offset + 1 .. Len(text) : ~isIdentifierPart(text[i]) }
        last == IF stops = {} THEN Len(text)
                ELSE (CHOOSE i \in stops : \A j \in stops : i <= j) - 1
    IN  IF starts = {} THEN NoWord
        ELSE [found |-> TRUE, word |-> SubSeq(text, first, last)]

createRangeFromOffset(offset, length) ==
    [start |-> [line |-> 0, character |-> offset],
     end |-> [line |-> 0, character |-> offset + length]]

\* the kinds are named as the enumerations CompletionItemKind and
\* SymbolKind name them
mapCompletionKindToSymbolKind(kind) ==
    CASE kind = "Function" -> "Function"
      [] kind = "Variable" -> "Variable"
      [] kind = "Class" -> "Class"
      [] kind = "TypeParameter" -> "TypeParameter"
      [] kind = "Module" -> "Module"
      [] kind = "Property" -> "Property"
      [] kind = "Field" -> "Field"
      [] kind = "Constructor" -> "Constructor"
      [] kind = "Enum" -> "Enum"
      [] kind = "Interface" -> "Interface"
      [] kind = "Method" -> "Method"
      [] OTHER -> "Variable"

getTokenType(kind) ==
    CASE kind = "Function" -> 1
      [] kind = "Variable" -> 2
      [] kind = "Class" -> 0
      [] kind = "TypeParameter" -> 3
      [] kind = "Keyword" -> 4
      [] kind = "Text" -> 5
      [] kind = "Value" -> 6
      [] OTHER -> 2

CompletionKeywords ==
    << <<"f", "n">>, <<"l", "e", "t">>, <<"c", "o", "n", "s", "t">>,
       <<"s", "t", "r", "u", "c", "t">>, <<"e", "n", "u", "m">>, <<"i", "f">>,
       <<"e", "l", "s", "e">>, <<"f", "o", "r">>, <<"w", "h", "i", "l", "e">>,
       <<"b", "r", "e", "a", "k">>, <<"c", "o", "n", "t", "i", "n", "u", "e">>,
       <<"r", "e", "t", "u", "r", "n">>, <<"m", "a", "t", "c", "h">>,
       <<"w", "h", "e", "r", "e">>, <<"a", "s", "y", "n", "c">>,
       <<"a", "w", "a", "i", "t">>, <<"t", "r", "a", "i", "t">>,
       <<"i", "m", "p", "l">>, <<"i", "m", "p", "o", "r", "t">>,
       <<"p", "a", "c", "k", "a", "g", "e">> >>

CompletionPrimitiveTypes ==
    << <<"i", "n", "t">>, <<"f", "l", "o", "a", "t">>, <<"b", "o", "o", "l">>,
       <<"s", "t", "r", "i", "n", "g">>, <<"c", "h", "a", "r">> >>

CompletionGenericTypes ==
    << <<"O", "p", "t", "i", "o", "n">>, <<"R", "e", "s", "u", "l", "t">>,
       <<"V", "e", "c">> >>

\* a field of a symbol, where it is set
CopyOf(symbol, fields) ==
    [f \in fields \cap DOMAIN symbol |-> symbol[f]]

SymbolsOf(T, uri) ==
    SelectSeq(T.symbols, LAMBDA entry : startsWith(entry.key, uri \o <<":">>))

getCompletionsAt(T, offset, text, uri) ==
    [i \in 1 .. Len(CompletionKeywords) |->
        [name |-> CompletionKeywords[i], kind |-> "Keyword",
         detail |-> <<"Keyword: ", CompletionKeywords[i]>>]]
    \o [i \in 1 .. Len(CompletionPrimitiveTypes) |->
        [name |-> CompletionPrimitiveTypes[i], kind |-> "TypeParameter",
         detail |-> <<"Primitive type: ", CompletionPrimitiveTypes[i]>>]]
    \o [i \in 1 .. Len(CompletionGenericTypes) |->
        [name |-> CompletionGenericTypes[i], kind |-> "TypeParameter",
         detail |-> <<"Generic type: ", CompletionGenericTypes[i]>>]]
    \o [i \in 1 .. Len(SymbolsOf(T, uri)) |->
        CopyOf(SymbolsOf(T, uri)[i].value, {"name", "kind", "detail", "documentation"})]
    \o [i \in 1 .. Len(T.globalSymbols) |->
        CopyOf(T.globalSymbols[i].value, {"name", "kind", "detail", "documentation"})]

\* the replies that are null or one value are the empty sequence or the
\* sequence of the value; the backquotes of the markdown are left out
getHoverInfoAt(T, offset, text, uri) ==
    LET word == getWordAtOffset(offset, text)
        symbol == getSymbol(T, word.word, uri)
        Piece(field, label) ==
            IF field \in DOMAIN symbol THEN <<label, symbol[field]>> ELSE <<>>
    IN  IF ~word.found THEN <<>>
        ELSE IF symbol = NoSymbol THEN <<>>
        ELSE <<[contents |->
                    <<"**", symbol.name, "**">>
                        \o Piece("type", "\n\nType: ")
                        \o Piece("parameters", "\n\nParameters: ")
                        \o Piece("returnType", "\n\nReturns: ")
                        \o (IF "documentation" \in DOMAIN symbol
                            THEN <<"\n\n", symbol.documentation>> ELSE <<>>),
                range |-> createRangeFromOffset(offset, Len(word.word))]>>

getSignatureHelpAt(T, offset, text, uri) ==
    LET word == getWordAtOffset(offset, text)
        symbol == getSymbol(T, word.word, uri)
        parameters == IF "parameters" \in DOMAIN symbol THEN symbol.parameters ELSE <<>>
    IN  IF ~word.found THEN <<>>
        ELSE IF symbol = NoSymbol \/ symbol.kind # "Function" THEN <<>>
        ELSE <<[signatures |->
                    <<[label |-> <<symbol.name, "(", parameters, ")">>]
                        @@ CopyOf(symbol, {"documentation"})
                        @@ [parameters |->
                               [i \in 1 .. Len(parameters) |-> [label |-> parameters[i]]]]>>,
                activeSignature |-> 0,
                activeParameter |-> 0]>>

getDefinitionAt(T, offset, text, uri) ==
    LET word == getWordAtOffset(offset, text)
        symbol == getSymbol(T, word.word, uri)
    IN  IF ~word.found THEN <<>>
        ELSE IF symbol = NoSymbol THEN <<>>
        ELSE <<[uri |-> symbol.uri, range |-> symbol.range]>>

Named(map, word) == SelectSeq(map, LAMBDA entry : entry.value.name = word)

getReferencesAt(T, offset, text, uri) ==
    LET word == getWordAtOffset(offset, text)
        Location(entry) == [uri |-> entry.value.uri, range |-> entry.value.range]
        local == Named(T.symbols, word.word)
    IN  IF ~word.found THEN <<>>
        ELSE [i \in 1 .. Len(local) |-> Location(local[i])]
                 \o (IF EntryHas(T.globalSymbols, word.word)
                     THEN <<[uri |-> EntryGet(T.globalSymbols, word.word).uri,
                             range |-> EntryGet(T.globalSymbols, word.word).range]>>
                     ELSE <<>>)

\* changes[uri].push(edit), for the object changes kept as a Map
PushChange(changes, uri, edit) ==
    EntrySet(changes, uri,
           (IF EntryHas(changes, uri) THEN EntryGet(changes, uri) ELSE <<>>) \o <<edit>>)

RECURSIVE RenameLoop(_, _, _)
RenameLoop(changes, entries, newName) ==
    IF entries = <<>> THEN changes
    ELSE RenameLoop(PushChange(changes, Head(entries).value.uri,
                               [range |-> Head(entries).value.range,
                                newText |-> newName]),
                    Tail(entries), newName)

getRenameInfoAt(T, offset, text, uri, newName) ==
    LET word == getWordAtOffset(offset, text)
    IN  IF ~word.found THEN <<>>
        ELSE <<[changes |->
                   RenameLoop(<<>>,
                              Named(T.symbols, word.word)
                                  \o SelectSeq(T.globalSymbols,
                                               LAMBDA entry : entry.key = word.word),
                              newName)]>>

getDocumentSymbols(T, text, uri) ==
    [i \in 1 .. Len(SymbolsOf(T, uri)) |->
        [name |-> SymbolsOf(T, uri)[i].value.name,
         kind |-> mapCompletionKindToSymbolKind(SymbolsOf(T, uri)[i].value.kind),
         range |-> SymbolsOf(T, uri)[i].value.range,
         selectionRange |-> SymbolsOf(T, uri)[i].value.range,
         children |-> <<>>]
        @@ CopyOf(SymbolsOf(T, uri)[i].value, {"detail"})]

getWorkspaceSymbols(T, query) ==
    LET Matching(map) ==
            SelectSeq(map, LAMBDA entry :
                includes(toLowerCase(entry.value.name), toLowerCase(query)))
        Information(entry) ==
            [name |-> entry.value.name,
             kind |-> mapCompletionKindToSymbolKind(entry.value.kind),
             location |-> [uri |-> entry.value.uri, range |-> entry.value.range]]
        Listed(entries) == [i \in 1 .. Len(entries) |-> Information(entries[i])]
    IN  Listed(Matching(T.symbols)) \o Listed(Matching(T.globalSymbols))

RECURSIVE SemanticTokensOfWords(_, _, _, _, _)
SemanticTokensOfWords(T, words, uri, line, char) ==
    IF words = <<>> THEN <<>>
    ELSE (IF Len(Head(words)) > 0 /\ getSymbol(T, Head(words), uri) # NoSymbol
          THEN <<line, char, Len(Head(words)),
                 getTokenType(getSymbol(T, Head(words), uri).kind), 0>>
          ELSE <<>>)
             \o SemanticTokensOfWords(T, Tail(words), uri, line,
                                      char + Len(Head(words)) + 1)

RECURSIVE SemanticTokensOfLines(_, _, _, _)
SemanticTokensOfLines(T, lines, uri, line) ==
    IF line >= Len(lines) THEN <<>>
    ELSE SemanticTokensOfWords(T, SplitWords(lines[line + 1]), uri, line, 0)
             \o SemanticTokensOfLines(T, lines, uri, line + 1)

getSemanticTokens(T, text, uri) == SemanticTokensOfLines(T, SplitLines(text), uri, 0)

getCallHierarchyItemsAt(T, offset, text, uri) ==
    LET word == getWordAtOffset(offset, text)
        symbol == getSymbol(T, word.word, uri)
    IN  IF ~word.found THEN <<>>
        ELSE IF symbol = NoSymbol \/ symbol.kind # "Function" THEN <<>>
        ELSE <<[name |-> symbol.name,
                kind |-> mapCompletionKindToSymbolKind(symbol.kind),
                uri |-> symbol.uri,
                range |-> symbol.range,
                selectionRange |-> symbol.range]>>

getIncomingCalls(T, item) == <<>>

getOutgoingCalls(T, item) == <<>>

-----------------------------------------------------------------------------
(* StdlibLoader: the symbols of the standard library *)

StdlibUri == <<"s", "t", "d", "l", "i", "b">>

ZeroRange ==
    [start |-> [line |-> 0, character |-> 0], end |-> [line |-> 0, character |-> 0]]

StdlibPrimitiveTypes ==
    << <<"i", "n", "t">>, <<"f", "l", "o", "a", "t">>, <<"b", "o", "o", "l">>,
       <<"s", "t", "r", "i", "n", "g">>, <<"c", "h", "a", "r">> >>

StdlibGenericTypes ==
    << [name |-> <<"O", "p", "t", "i", "o", "n">>,
        description |-> "Represents an optional value that may or may not be present."],
       [name |-> <<"R", "e", "s", "u", "l", "t">>,
        description |-> "Represents a value that is either a success or an error."],
       [name |-> <<"V", "e", "c">>,
        description |-> "A growable array type."] >>

StdlibFunctions ==
    <<
       [name |-> <<"p", "r", "i", "n", "t">>,
        parameters |-> <<"message: string">>, returnType |-> "void",
        description |-> "Prints a message to the console."],
       [name |-> <<"p", "r", "i", "n", "t", "l", "n">>,
        parameters |-> <<"message: string">>, returnType |-> "void",
        description |-> "Prints a message to the console with a newline."],
       [name |-> <<"l", "e", "n">>,
        parameters |-> <<"collection: Vec<T>">>, returnType |-> "int",
        description |-> "Returns the length of a collection."],
       [name |-> <<"p", "u", "s", "h">>,
        parameters |-> <<"collection: Vec<T>", "item: T">>, returnType |-> "void",
        description |-> "Adds an item to the end of a collection."],
       [name |-> <<"p", "o", "p">>,
        parameters |-> <<"collection: Vec<T>">>, returnType |-> "Option<T>",
        description |-> "Removes and returns the last item from a collection."],
       [name |-> <<"g", "e", "t">>,
        parameters |-> <<"collection: Vec<T>", "index: int">>, returnType |-> "Option<T>",
        description |-> "Returns the item at the specified index."],
       [name |-> <<"s", "e", "t">>,
        parameters |-> <<"collection: Vec<T>", "index: int", "item: T">>, returnType |-> "bool",
        description |-> "Sets the item at the specified index."],
       [name |-> <<"c", "o", "n", "t", "a", "i", "n", "s">>,
        parameters |-> <<"collection: Vec<T>", "item: T">>, returnType |-> "bool",
        description |-> "Checks if a collection contains an item."],
       [name |-> <<"c", "l", "e", "a", "r">>,
        parameters |-> <<"collection: Vec<T>">>, returnType |-> "void",
        description |-> "Removes all items from a collection."],
       [name |-> <<"i", "s", "_", "e", "m", "p", "t", "y">>,
        parameters |-> <<"collection: Vec<T>">>, returnType |-> "bool",
        description |-> "Checks if a collection is empty."],
       [name |-> <<"p", "a", "r", "s", "e", "_", "i", "n", "t">>,
        parameters |-> <<"str: string">>, returnType |-> "Option<int>",
        description |-> "Parses a string to an integer."],
       [name |-> <<"p", "a", "r", "s", "e", "_", "f", "l", "o", "a", "t">>,
        parameters |-> <<"str: string">>, returnType |-> "Option<float>",
        description |-> "Parses a string to a float."],
       [name |-> <<"t", "o", "_", "s", "t", "r", "i", "n", "g">>,
        parameters |-> <<"value: T">>, returnType |-> "string",
        description |-> "Converts a value to a string."],
       [name |-> <<"m", "i", "n">>,
        parameters |-> <<"a: T", "b: T">>, returnType |-> "T",
        description |-> "Returns the minimum of two values."],
       [name |-> <<"m", "a", "x">>,
        parameters |-> <<"a: T", "b: T">>, returnType |-> "T",
        description |-> "Returns the maximum of two values."],
       [name |-> <<"a", "b", "s">>,
        parameters |-> <<"value: float">>, returnType |-> "float",
        description |-> "Returns the absolute value of a number."],
       [name |-> <<"s", "q", "r", "t">>,
        parameters |-> <<"value: float">>, returnType |-> "float",
        description |-> "Returns the square root of a number."],
       [name |-> <<"p", "o", "w">>,
        parameters |-> <<"base: float", "exponent: float">>, returnType |-> "float",
        description |-> "Returns the base raised to the power of the exponent."],
       [name |-> <<"s", "i", "n">>,
        parameters |-> <<"angle: float">>, returnType |-> "float",
        description |-> "Returns the sine of an angle in radians."],
       [name |-> <<"c", "o", "s">>,
        parameters |-> <<"angle: float">>, returnType |-> "float",
        description |-> "Returns the cosine of an angle in radians."],
       [name |-> <<"t", "a", "n">>,
        parameters |-> <<"angle: float">>, returnType |-> "float",
        description |-> "Returns the tangent of an angle in radians."],
       [name |-> <<"r", "a", "n", "d", "o", "m">>,
        parameters |-> <<"min: int", "max: int">>, returnType |-> "int",
        description |-> "Returns a random integer between min and max (inclusive)."],
       [name |-> <<"r", "a", "n", "d", "o", "m", "_", "f", "l", "o", "a", "t">>,
        parameters |-> <<"min: float", "max: float">>, returnType |-> "float",
        description |-> "Returns a random float between min and max."],
       [name |-> <<"s", "l", "e", "e", "p">>,
        parameters |-> <<"milliseconds: int">>, returnType |-> "void",
        description |-> "Pauses execution for the specified number of milliseconds."],
       [name |-> <<"t", "i", "m", "e">>,
        parameters |-> <<>>, returnType |-> "int",
        description |-> "Returns the current time in milliseconds since the epoch."],
       [name |-> <<"r", "e", "a", "d", "_", "l", "i", "n", "e">>,
        parameters |-> <<>>, returnType |-> "Option<string>",
        description |-> "Reads a line from standard input."],
       [name |-> <<"r", "e", "a", "d", "_", "f", "i", "l", "e">>,
        parameters |-> <<"path: string">>, returnType |-> "Option<string>",
        description |-> "Reads the contents of a file."],
       [name |-> <<"w", "r", "i", "t", "e", "_", "f", "i", "l", "e">>,
        parameters |-> <<"path: string", "content: string">>, returnType |-> "bool",
        description |-> "Writes content to a file."],
       [name |-> <<"f", "i", "l", "e", "_", "e", "x", "i", "s", "t", "s">>,
        parameters |-> <<"path: string">>, returnType |-> "bool",
        description |-> "Checks if a file exists."],
       [name |-> <<"d", "e", "l", "e", "t", "e", "_", "f", "i", "l", "e">>,
        parameters |-> <<"path: string">>, returnType |-> "bool",
        description |-> "Deletes a file."],
       [name |-> <<"c", "r", "e", "a", "t", "e", "_", "d", "i", "r">>,
        parameters |-> <<"path: string">>, returnType |-> "bool",
        description |-> "Creates a directory."],
       [name |-> <<"l", "i", "s", "t", "_", "d", "i", "r">>,
        parameters |-> <<"path: string">>, returnType |-> "Option<Vec<string>>",
        description |-> "Lists the contents of a directory."],
       [name |-> <<"s", "p", "l", "i", "t">>,
        parameters |-> <<"str: string", "delimiter: string">>, returnType |-> "Vec<string>",
        description |-> "Splits a string by a delimiter."],
       [name |-> <<"j", "o", "i", "n">>,
        parameters |-> <<"strings: Vec<string>", "delimiter: string">>, returnType |-> "string",
        description |-> "Joins strings with a delimiter."],
       [name |-> <<"t", "r", "i", "m">>,
        parameters |-> <<"str: string">>, returnType |-> "string",
        description |-> "Removes whitespace from the beginning and end of a string."],
       [name |-> <<"t", "o", "_", "l", "o", "w", "e", "r", "c", "a", "s", "e">>,
        parameters |-> <<"str: string">>, returnType |-> "string",
        description |-> "Converts a string to lowercase."],
       [name |-> <<"t", "o", "_", "u", "p", "p", "e", "r", "c", "a", "s", "e">>,
        parameters |-> <<"str: string">>, returnType |-> "string",
        description |-> "Converts a string to uppercase."],
       [name |-> <<"s", "t", "a", "r", "t", "s", "_", "w", "i", "t", "h">>,
        parameters |-> <<"str: string", "prefix: string">>, returnType |-> "bool",
        description |-> "Checks if a string starts with a prefix."],
       [name |-> <<"e", "n", "d", "s", "_", "w", "i", "t", "h">>,
        parameters |-> <<"str: string", "suffix: string">>, returnType |-> "bool",
        description |-> "Checks if a string ends with a suffix."],
       [name |-> <<"c", "o", "n", "t", "a", "i", "n", "s", "_", "s", "t", "r">>,
        parameters |-> <<"str: string", "substr: string">>, returnType |-> "bool",
        description |-> "Checks if a string contains a substring."],
       [name |-> <<"r", "e", "p", "l", "a", "c", "e">>,
        parameters |-> <<"str: string", "old: string", "new: string">>, returnType |-> "string",
        description |-> "Replaces all occurrences of old with new in a string."],
       [name |-> <<"s", "u", "b", "s", "t", "r", "i", "n", "g">>,
        parameters |-> <<"str: string", "start: int", "end: int">>, returnType |-> "string",
        description |-> "Returns a substring from start to end."]
    >>

StdlibConstants ==
    <<
       [name |-> <<"P", "I">>, value |-> "3.14159265359",
        description |-> "The mathematical constant π."],
       [name |-> <<"E">>, value |-> "2.71828182846",
        description |-> "The mathematical constant e."],
       [name |-> <<"M", "A", "X", "_", "I", "N", "T">>, value |-> "2147483647",
        description |-> "The maximum value for a 32-bit integer."],
       [name |-> <<"M", "I", "N", "_", "I", "N", "T">>, value |-> "-2147483648",
        description |-> "The minimum value for a 32-bit integer."],
       [name |-> <<"M", "A", "X", "_", "F", "L", "O", "A", "T">>, value |-> "3.402823e+38",
        description |-> "The maximum value for a 32-bit float."],
       [name |-> <<"M", "I", "N", "_", "F", "L", "O", "A", "T">>, value |-> "1.175494e-38",
        description |-> "The minimum value for a 32-bit float."]
    >>

RECURSIVE AddGlobalSymbols(_, _)
AddGlobalSymbols(T, symbols) ==
    IF symbols = <<>> THEN T
    ELSE AddGlobalSymbols(addGlobalSymbol(T, Head(symbols)), Tail(symbols))

loadStdlib(T) ==
    LET primitives ==
            [i \in 1 .. Len(StdlibPrimitiveTypes) |->
                [name |-> StdlibPrimitiveTypes[i], kind |-> "TypeParameter",
                 uri |-> StdlibUri, range |-> ZeroRange,
                 detail |-> <<"Primitive type: ", StdlibPrimitiveTypes[i]>>,
                 documentation |-> <<"The ", StdlibPrimitiveTypes[i],
                                     " primitive type in VextLang.">>]]
        generics ==
            [i \in 1 .. Len(StdlibGenericTypes) |->
                [name |-> StdlibGenericTypes[i].name, kind |-> "TypeParameter",
                 uri |-> StdlibUri, range |-> ZeroRange,
                 detail |-> <<"Generic type: ", StdlibGenericTypes[i].name>>,
                 documentation |-> StdlibGenericTypes[i].description]]
        functions ==
            [i \in 1 .. Len(StdlibFunctions) |->
                [name |-> StdlibFunctions[i].name, kind |-> "Function",
                 uri |-> StdlibUri, range |-> ZeroRange,
                 detail |-> <<StdlibFunctions[i].name, "(",
                              StdlibFunctions[i].parameters, ") -> ",
                              StdlibFunctions[i].returnType>>,
                 documentation |-> StdlibFunctions[i].description,
                 parameters |-> StdlibFunctions[i].parameters,
                 returnType |-> StdlibFunctions[i].returnType]]
        constants ==
            [i \in 1 .. Len(StdlibConstants) |->
                [name |-> StdlibConstants[i].name, kind |-> "Constant",
                 uri |-> StdlibUri, range |-> ZeroRange,
                 detail |-> <<"Constant: ", StdlibConstants[i].name, " = ",
                              StdlibConstants[i].value>>,
                 documentation |-> StdlibConstants[i].description]]
    IN  AddGlobalSymbols(
            AddGlobalSymbols(
                AddGlobalSymbols(AddGlobalSymbols(T, primitives), generics),
                functions),
            constants)

-----------------------------------------------------------------------------
(* The language server, src/server/src/server.ts: one Parser, one          *)
(* SemanticAnalyzer and one SymbolTable serve every document.  The module  *)
(* body loads the standard library and starts listening; from then on one  *)
(* action is one handler run to its reply.  sReply is what the handler     *)
(* sent: the diagnostics published, or the result of the request.  A       *)
(* position of a request is the offset document.offsetAt gives for it.     *)

\* the whole of Parser.parse: the parser state at the return or at the
\* throw, and the ast
RECURSIVE ParseLoop(_, _)
ParseLoop(S, ast) ==
    IF ~PeekDefined(S) THEN [s |-> Throw(S, "TypeError"), ast |-> ast]
    ELSE IF isAtEnd(S) THEN [s |-> S, ast |-> ast]
    ELSE LET Caught(r, S2) ==
                 IF S2.thrown # "none" THEN [s |-> S2, ast |-> ast]
                 ELSE ParseLoop(S2, IF r.s.thrown # "none" THEN ast
                                    ELSE Append(ast, r.node))
             Tried(r) ==
                 Caught(r, IF r.s.thrown # "none"
                           THEN synchronize(Throw(r.s, "none")) ELSE r.s)
         IN  Tried(Invoke("parseTopLevel", S, <<>>))

parse(P, source) == ParseLoop(StateOf(ParseReset(P, tokenize(source))), <<>>)

-----------------------------------------------------------------------------
(* Formatter.  The object F holds options, indentLevel, currentLine,       *)
(* currentColumn and output; thrown is "none" until a method throws.  The  *)
(* texts are sequences of characters.                                      *)

NewFormatter(options) ==
    [options |-> options, indentLevel |-> 0, currentLine |-> 0,
     currentColumn |-> 0, output |-> <<>>, thrown |-> "none"]

\* the number of line breaks of a text
LineBreaks(text) == Cardinality({ i \in 1 .. Len(text) : text[i] = "\n" })

\* the length of the part of a text after its last line break
LastLineLength(text) ==
    LET breaks == { i \in 1 .. Len(text) : text[i] = "\n" }
    IN  IF breaks = {} THEN Len(text)
        ELSE Len(text) - (CHOOSE i \in breaks : \A j \in breaks : j <= i)

\* write(text): appends to output and tracks the position
write(F, text) ==
    IF F.thrown # "none" THEN F
    ELSE [F EXCEPT !.output = @ \o text,
                   !.currentLine = @ + LineBreaks(text),
                   !.currentColumn = IF LineBreaks(text) > 0 THEN LastLineLength(text)
                                     ELSE @ + Len(text)]

\* write(undefined): output += undefined appends the text "undefined", and
\* text.split then throws a TypeError
writeUndefined(F) ==
    IF F.thrown # "none" THEN F
    ELSE [F EXCEPT !.output = @ \o <<"u", "n", "d", "e", "f", "i", "n", "e", "d">>,
                   !.thrown = "TypeError"]

\* indentLevel++ and indentLevel--
Indent(F, by) ==
    IF F.thrown # "none" THEN F ELSE [F EXCEPT !.indentLevel = @ + by]

RECURSIVE Repeat(_, _)
Repeat(text, n) == IF n <= 0 THEN <<>> ELSE text \o Repeat(text, n - 1)

writeIndent(F) ==
    write(F, IF F.options.insertSpaces
             THEN Repeat(<<" ">>, F.indentLevel * F.options.tabSize)
             ELSE Repeat(<<"\t">>, F.indentLevel))

RECURSIVE formatTypeExpression(_, _)
RECURSIVE TypeArgumentsLoop(_, _, _)
RECURSIVE formatExpression(_, _)
RECURSIVE ExpressionsLoop(_, _, _)
RECURSIVE formatStatement(_, _)
RECURSIVE StatementsLoop(_, _)
RECURSIVE formatFunction(_, _)
RECURSIVE MatchCasesLoop(_, _, _)

\* formatTypeExpression(typeExpr) for a type expression node
formatTypeExpression(F, typeExpr) ==
    LET f1 == IF typeExpr.isReference
              THEN (IF typeExpr.isMutable THEN write(write(F, <<"&">>), <<"m", "u", "t", " ">>)
                    ELSE write(F, <<"&">>))
              ELSE F
        f2 == write(f1, typeExpr.baseType)
    IN  IF typeExpr.genericArgs.defined /\ Len(typeExpr.genericArgs.items) > 0
        THEN write(TypeArgumentsLoop(write(f2, <<"<">>), typeExpr.genericArgs.items, 1), <<">">>)
        ELSE f2

TypeArgumentsLoop(F, args, i) ==
    IF i > Len(args) THEN F
    ELSE LET f1 == formatTypeExpression(F, args[i])
         IN  TypeArgumentsLoop(IF i < Len(args) THEN write(f1, <<",", " ">>) ELSE f1, args, i + 1)

\* formatTypeExpression(variable.type): the argument is the string
\* 'variable', whose isReference and baseType are undefined
formatTypeExpressionOfString(F) == writeUndefined(F)

\* name: type {, name: type}
RECURSIVE NameAndTypeList(_, _, _)
NameAndTypeList(F, items, i) ==
    IF i > Len(items) THEN F
    ELSE LET f1 == formatTypeExpression(write(write(F, items[i].name), <<":", " ">>), items[i].type)
         IN  NameAndTypeList(IF i < Len(items) THEN write(f1, <<",", " ">>) ELSE f1, items, i + 1)

\* <name[: constraint] {, name[: constraint]}> when there are generics
RECURSIVE GenericsLoop(_, _, _)
GenericsLoop(F, generics, i) ==
    IF i > Len(generics) THEN F
    ELSE LET f1 == write(F, generics[i].name)
             f2 == IF Defined(generics[i].constraint)
                   THEN formatTypeExpression(write(f1, <<":", " ">>), generics[i].constraint)
                   ELSE f1
         IN  GenericsLoop(IF i < Len(generics) THEN write(f2, <<",", " ">>) ELSE f2,
                          generics, i + 1)

formatGenerics(F, node) ==
    IF "generics" \in DOMAIN node /\ node.generics.defined /\ Len(node.generics.items) > 0
    THEN write(GenericsLoop(write(F, <<"<">>), node.generics.items, 1), <<">">>)
    ELSE F

formatFunction(F, func) ==
    LET f1 == writeIndent(F)
        f2 == IF func.isAsync THEN write(f1, <<"a", "s", "y", "n", "c", " ">>) ELSE f1
        f3 == write(write(write(f2, <<"f", "n", " ">>), func.name), <<"(">>)
        f4 == write(NameAndTypeList(f3, func.parameters, 1), <<")">>)
        f5 == IF Defined(func.returnType)
              THEN formatTypeExpression(write(f4, <<" ", "-", ">", " ">>), func.returnType)
              ELSE f4
        f6 == Indent(write(f5, <<" ", "{", "\n">>), 1)
        f7 == Indent(StatementsLoop(f6, func.body), -1)
    IN  write(writeIndent(f7), <<"}", "\n", "\n">>)

\* the fields of a struct, one per line
RECURSIVE StructFieldsLoop(_, _, _)
StructFieldsLoop(F, fields, i) ==
    IF i > Len(fields) THEN F
    ELSE LET f1 == write(write(writeIndent(F), fields[i].name), <<":", " ">>)
             f2 == formatTypeExpression(f1, fields[i].type)
             f3 == IF i < Len(fields) THEN write(f2, <<",">>) ELSE f2
         IN  StructFieldsLoop(write(f3, <<"\n">>), fields, i + 1)

formatStruct(F, struct) ==
    LET f1 == write(write(writeIndent(F), <<"s", "t", "r", "u", "c", "t", " ">>), struct.name)
        f2 == Indent(write(formatGenerics(f1, struct), <<" ", "{", "\n">>), 1)
        f3 == Indent(StructFieldsLoop(f2, struct.fields, 1), -1)
    IN  write(writeIndent(f3), <<"}", "\n", "\n">>)

\* the variants of an enum, one per line
RECURSIVE EnumVariantsLoop(_, _, _)
EnumVariantsLoop(F, variants, i) ==
    IF i > Len(variants) THEN F
    ELSE LET f1 == write(writeIndent(F), variants[i].name)
             f2 == IF variants[i].fields.defined /\ Len(variants[i].fields.items) > 0
                   THEN write(NameAndTypeList(write(f1, <<"(">>), variants[i].fields.items, 1),
                              <<")">>)
                   ELSE f1
             f3 == IF i < Len(variants) THEN write(f2, <<",">>) ELSE f2
         IN  EnumVariantsLoop(write(f3, <<"\n">>), variants, i + 1)

formatEnum(F, enumDecl) ==
    LET f1 == write(write(writeIndent(F), <<"e", "n", "u", "m", " ">>), enumDecl.name)
        f2 == Indent(write(formatGenerics(f1, enumDecl), <<" ", "{", "\n">>), 1)
        f3 == Indent(EnumVariantsLoop(f2, enumDecl.variants, 1), -1)
    IN  write(writeIndent(f3), <<"}", "\n", "\n">>)

\* variable.type is the node's type tag 'variable', never undefined: the
\* colon is always written and the tag is formatted as a type expression
formatVariable(F, variable) ==
    LET f1 == write(writeIndent(F), IF variable.isConst THEN <<"c", "o", "n", "s", "t", " ">> ELSE <<"l", "e", "t", " ">>)
        f2 == write(f1, variable.name)
        f3 == formatTypeExpressionOfString(write(f2, <<":", " ">>))
        f4 == IF Defined(variable.value)
              THEN formatExpression(write(f3, <<" ", "=", " ">>), variable.value)
              ELSE f3
    IN  write(f4, <<";", "\n">>)

formatExpression(F, expr) ==
    CASE expr.kind \in {"literal", "identifier"} -> write(F, expr.value)
      [] expr.kind = "binary" ->
            formatExpression(
                write(write(write(formatExpression(F, expr.left), <<" ">>), expr.operator),
                      <<" ">>),
                expr.right)
      [] expr.kind = "unary" -> formatExpression(write(F, expr.operator), expr.right)
      [] expr.kind = "call" ->
            write(ExpressionsLoop(write(formatExpression(F, expr.left), <<"(">>),
                                  expr.value, 1), <<")">>)
      [] expr.kind = "member_access" ->
            write(write(formatExpression(F, expr.left), <<".">>), expr.value)
      [] expr.kind = "index_access" ->
            write(formatExpression(write(formatExpression(F, expr.left), <<"[">>),
                                   expr.right), <<"]">>)
      [] expr.kind = "parenthesized" ->
            write(formatExpression(write(F, <<"(">>), expr.value), <<")">>)
      [] expr.kind = "array" ->
            write(ExpressionsLoop(write(F, <<"[">>), expr.value, 1), <<"]">>)
      [] expr.kind = "block" ->
            write(writeIndent(Indent(StatementsLoop(Indent(write(F, <<"{", "\n">>), 1),
                                                    expr.value), -1)),
                  <<"}">>)
      [] OTHER -> F

\* expression {, expression}
ExpressionsLoop(F, expressions, i) ==
    IF i > Len(expressions) THEN F
    ELSE LET f1 == formatExpression(F, expressions[i])
         IN  ExpressionsLoop(IF i < Len(expressions) THEN write(f1, <<",", " ">>) ELSE f1,
                             expressions, i + 1)

\* for (const stmt of statements) formatStatement(stmt)
StatementsLoop(F, statements) ==
    IF statements = <<>> THEN F
    ELSE StatementsLoop(formatStatement(F, Head(statements)), Tail(statements))

\* the body between the braces, one level deeper
FormatBody(F, statements) == Indent(StatementsLoop(Indent(F, 1), statements), -1)

formatIfStatement(F, stmt) ==
    LET f1 == write(writeIndent(F), <<"i", "f", " ", "(">>)
        f2 == IF Present(stmt, "condition") THEN formatExpression(f1, stmt.condition) ELSE f1
        f3 == FormatBody(write(f2, <<")", " ", "{", "\n">>), stmt.thenBody)
        f4 == write(writeIndent(f3), <<"}">>)
        f5 == IF stmt.elseBody.defined /\ Len(stmt.elseBody.items) > 0
              THEN write(writeIndent(FormatBody(write(f4, <<" ", "e", "l", "s", "e", " ", "{", "\n">>),
                                                stmt.elseBody.items)), <<"}">>)
              ELSE f4
    IN  write(f5, <<"\n">>)

formatForStatement(F, stmt) ==
    LET f1 == write(write(write(writeIndent(F), <<"f", "o", "r", " ">>), stmt.item), <<" ", "i", "n", " ">>)
        f2 == IF Present(stmt, "collection") THEN formatExpression(f1, stmt.collection) ELSE f1
        f3 == FormatBody(write(f2, <<" ", "{", "\n">>), stmt.body)
    IN  write(writeIndent(f3), <<"}", "\n">>)

formatWhileStatement(F, stmt) ==
    LET f1 == write(writeIndent(F), <<"w", "h", "i", "l", "e", " ", "(">>)
        f2 == IF Present(stmt, "condition") THEN formatExpression(f1, stmt.condition) ELSE f1
        f3 == FormatBody(write(f2, <<")", " ", "{", "\n">>), stmt.body)
    IN  write(writeIndent(f3), <<"}", "\n">>)

MatchCasesLoop(F, cases, i) ==
    IF i > Len(cases) THEN F
    ELSE LET f1 == formatExpression(writeIndent(F), cases[i].pattern)
             f2 == IF Defined(cases[i].guard)
                   THEN formatExpression(write(f1, <<" ", "i", "f", " ">>), cases[i].guard)
                   ELSE f1
             f3 == FormatBody(write(f2, <<" ", "=", ">", " ", "{", "\n">>), cases[i].body)
             f4 == write(writeIndent(f3), <<"}">>)
             f5 == IF i < Len(cases) THEN write(f4, <<",">>) ELSE f4
         IN  MatchCasesLoop(write(f5, <<"\n">>), cases, i + 1)

formatMatchStatement(F, stmt) ==
    LET f1 == write(writeIndent(F), <<"m", "a", "t", "c", "h", " ">>)
        f2 == IF Present(stmt, "expression") THEN formatExpression(f1, stmt.expression) ELSE f1
        f3 == Indent(MatchCasesLoop(Indent(write(f2, <<" ", "{", "\n">>), 1), stmt.cases, 1), -1)
    IN  write(writeIndent(f3), <<"}", "\n">>)

\* stmt.kind, undefined for the declarations that parseBlock puts in a body
\* (their nodes have a type and no kind)
KindOf(stmt) == IF "kind" \in DOMAIN stmt THEN stmt.kind ELSE "undefined"

\* the switch has no case for import, trait, impl and module, nor for a
\* node without a kind
formatStatement(F, stmt) ==
    CASE KindOf(stmt) = "expression" ->
            IF Present(stmt, "expression")
            THEN write(formatExpression(writeIndent(F), stmt.expression), <<";", "\n">>)
            ELSE F
      [] KindOf(stmt) = "if" -> formatIfStatement(F, stmt)
      [] KindOf(stmt) = "for" -> formatForStatement(F, stmt)
      [] KindOf(stmt) = "while" -> formatWhileStatement(F, stmt)
      [] KindOf(stmt) = "match" -> formatMatchStatement(F, stmt)
      [] KindOf(stmt) = "return" ->
            LET f1 == write(writeIndent(F), <<"r", "e", "t", "u", "r", "n">>)
                f2 == IF Present(stmt, "value")
                      THEN formatExpression(write(f1, <<" ">>), stmt.value)
                      ELSE f1
            IN  write(f2, <<";", "\n">>)
      [] KindOf(stmt) = "break" -> write(writeIndent(F), <<"b", "r", "e", "a", "k", ";", "\n">>)
      [] KindOf(stmt) = "continue" ->
            write(writeIndent(F), <<"c", "o", "n", "t", "i", "n", "u", "e", ";", "\n">>)
      [] KindOf(stmt) = "function" ->
            IF "parameters" \in DOMAIN stmt /\ "name" \in DOMAIN stmt /\ stmt.name # <<>>
            THEN formatFunction(F, [type |-> "function", name |-> stmt.name,
                                    parameters |-> stmt.parameters,
                                    returnType |-> IF "returnType" \in DOMAIN stmt
                                                   THEN stmt.returnType ELSE NoNode,
                                    body |-> <<>>, isAsync |-> FALSE])
            ELSE F
      [] KindOf(stmt) = "struct" ->
            IF "fields" \in DOMAIN stmt /\ "name" \in DOMAIN stmt /\ stmt.name # <<>>
            THEN formatStruct(F, [type |-> "struct", name |-> stmt.name,
                                  fields |-> stmt.fields])
            ELSE F
      [] KindOf(stmt) = "enum" ->
            IF "variants" \in DOMAIN stmt /\ "name" \in DOMAIN stmt /\ stmt.name # <<>>
            THEN formatEnum(F, [type |-> "enum", name |-> stmt.name,
                                variants |-> stmt.variants])
            ELSE F
      [] OTHER -> F

formatNode(F, node) ==
    CASE node.type = "function" -> formatFunction(F, node)
      [] node.type = "struct" -> formatStruct(F, node)
      [] node.type = "enum" -> formatEnum(F, node)
      [] node.type = "variable" -> formatVariable(F, node)
      [] node.type = "statement" -> formatStatement(F, node)
      [] OTHER -> F

RECURSIVE FormatNodes(_, _)
FormatNodes(F, ast) ==
    IF ast = <<>> THEN F ELSE FormatNodes(formatNode(F, Head(ast)), Tail(ast))

\* text.split('\n').length
countLines(text) == LineBreaks(text) + 1

\* Formatter.format: the one edit it returns, or the throw
format(options, source, ast) ==
    LET Edited(F) ==
            [thrown |-> F.thrown,
             output |-> F.output,
             edits |-> IF F.thrown # "none" THEN <<>>
                       ELSE << [range |-> [start |-> [line |-> 0, character |-> 0],
                                           end |-> [line |-> countLines(source),
                                                    character |-> Len(source)]],
                                newText |-> F.output] >>]
    IN  Edited(FormatNodes(NewFormatter(options), ast))

-----------------------------------------------------------------------------
(* The server, continued *)

\* TextDocument.positionAt
positionAt(text, offset) ==
    LET breaks == { i \in 1 .. offset : text[i] = "\n" }
        lineStart == IF breaks = {} THEN 0
                     ELSE CHOOSE i \in breaks : \A j \in breaks : j <= i
    IN  [line |-> Cardinality(breaks), character |-> offset - lineStart]

\* validateTextDocument: the Parser and the SemanticAnalyzer after it, and
\* the diagnostics it sends
validateTextDocument(P, A, uri, text) ==
    LET Analyzed(r, A2) ==
            [parser |-> FieldsOf(r.s), analyzer |-> A2,
             diagnostics |->
                 [i \in 1 .. Len(r.s.errors) |->
                     [severity |-> SeverityError,
                      range |-> [start |-> [line |-> r.s.errors[i].line - 1,
                                            character |-> r.s.errors[i].column - 1],
                                 end |-> [line |-> r.s.errors[i].line - 1,
                                          character |-> r.s.errors[i].column]],
                      message |-> r.s.errors[i].message,
                      source |-> "vextlang"]]
                 \o Diagnostics(A2)]
        Parsed(r) ==
            IF r.s.thrown # "none"
            THEN [parser |-> FieldsOf(r.s), analyzer |-> A,
                  diagnostics |->
                      <<[severity |-> SeverityError,
                         range |-> [start |-> positionAt(text, 0),
                                    end |-> positionAt(text, Len(text))],
                         message |-> <<"Parse error: ", r.s.thrown>>,
                         source |-> "vextlang"]>>]
            ELSE Analyzed(r, analyze(A, r.ast, uri))
    IN  Parsed(parse(P, text))

\* at most this many invocations of validateTextDocument are suspended
MaxPending == 2

\* the texts of the documents of the client
ServerTexts ==
    { <<"l", "e", "n">>,
      <<"P", "I", " ", ";", "\n", "x", " ", "i", "n", "t", "\n">> }

\* the new names of the rename requests
NewNames == { <<"q">> }

\* the queries of the workspace symbol requests
Queries == { <<>>, <<"i", "n">>, <<"P", "i">>, <<"z", "z">> }

\* the offsets of the positions of a document
Offsets(uri) ==
    IF EntryHas(documents, uri) THEN 0 .. Len(EntryGet(documents, uri)) ELSE {0}

\* stdlibLoader.loadStdlib(symbolTable), and connection.listen()
LoadStdlib ==
    /\ sPc = "start"
    /\ symbolTable' = loadStdlib(symbolTable)
    /\ sPc' = "listening"
    /\ UNCHANGED <<documents, sReply, sPending>>

\* a request handler: it replies and leaves the rest of the server alone
Replies(method, result) ==
    /\ sPc = "listening"
    /\ sReply' = [method |-> method, result |-> result]
    /\ UNCHANGED <<symbolTable, documents, sPc, sPending>>

\* validateTextDocument(textDocument) up to its await: the invocation holds
\* the TextDocument object and is suspended until the settings arrive.
\* live says that the object is still the one the documents manager holds
\* for the uri; the manager updates that object in place when the document
\* changes, and makes a new object when the document is opened
Suspended(uri, text) == [uri |-> uri, text |-> text, live |-> TRUE]

\* the suspended invocations after a change of the document uri
Updated(pending, uri, text) ==
    [i \in 1 .. Len(pending) |->
        IF pending[i].uri = uri /\ pending[i].live
        THEN [pending[i] EXCEPT !.text = text] ELSE pending[i]]

\* the suspended invocations after the document uri was closed
Detached(pending, uri) ==
    [i \in 1 .. Len(pending) |->
        IF pending[i].uri = uri THEN [pending[i] EXCEPT !.live = FALSE] ELSE pending[i]]

\* the document is opened or changed: documents.onDidChangeContent calls
\* validateTextDocument, which runs up to its await
OnDidChangeContent(uri, text) ==
    /\ sPc = "listening"
    /\ Len(sPending) < MaxPending
    /\ documents' = EntrySet(documents, uri, text)
    /\ sPending' = Append(IF EntryHas(documents, uri) THEN Updated(sPending, uri, text)
                          ELSE sPending,
                          Suspended(uri, text))
    /\ UNCHANGED <<symbolTable, sPc, sReply, parser, analyzer>>

\* the document is closed: it leaves the documents of the server
OnDidClose(uri) ==
    /\ sPc = "listening"
    /\ EntryHas(documents, uri)
    /\ documents' = EntryDelete(documents, uri)
    /\ sPending' = Detached(sPending, uri)
    /\ UNCHANGED <<symbolTable, sPc, sReply>>

\* documents.all().forEach(validateTextDocument): every call runs up to its
\* await
OnDidChangeConfiguration ==
    /\ sPc = "listening"
    /\ Len(sPending) + Len(documents) <= MaxPending
    /\ sPending' = sPending \o [i \in 1 .. Len(documents) |->
                                   Suspended(documents[i].key, documents[i].value)]
    /\ UNCHANGED <<symbolTable, documents, sPc, sReply, parser, analyzer>>

\* the sequence without its element of index i
Without(seq, i) == SubSeq(seq, 1, i - 1) \o SubSeq(seq, i + 1, Len(seq))

\* the settings of the suspended invocation of index i arrive: the rest of
\* validateTextDocument runs to its end, from getText to sendDiagnostics,
\* on the shared parser and analyzer
ValidateResume(i) ==
    /\ sPc = "listening"
    /\ i \in 1 .. Len(sPending)
    /\ LET Sent(v) ==
               /\ parser' = v.parser
               /\ analyzer' = v.analyzer
               /\ sReply' = [method |-> "textDocument/publishDiagnostics",
                             result |-> <<[uri |-> sPending[i].uri,
                                           diagnostics |-> v.diagnostics]>>]
       IN  Sent(validateTextDocument(parser, analyzer, sPending[i].uri, sPending[i].text))
    /\ sPending' = Without(sPending, i)
    /\ UNCHANGED <<symbolTable, documents, sPc>>

OnCompletion(uri, offset) ==
    Replies("textDocument/completion",
            IF ~EntryHas(documents, uri) THEN <<>>
            ELSE LET completions ==
                         getCompletionsAt(symbolTable, offset,
                                          EntryGet(documents, uri), uri)
                 IN  [i \in 1 .. Len(completions) |->
                         [label |-> completions[i].name,
                          kind |-> completions[i].kind,
                          insertText |-> completions[i].name]
                         @@ CopyOf(completions[i], {"detail", "documentation"})])

OnHover(uri, offset) ==
    Replies("textDocument/hover",
            IF ~EntryHas(documents, uri) THEN <<>>
            ELSE LET hoverInfo ==
                         getHoverInfoAt(symbolTable, offset, EntryGet(documents, uri), uri)
                 IN  IF hoverInfo = <<>> THEN <<>>
                     ELSE <<[contents |-> [kind |-> "markdown",
                                           value |-> hoverInfo[1].contents],
                             range |-> hoverInfo[1].range]>>)

OnSignatureHelp(uri, offset) ==
    Replies("textDocument/signatureHelp",
            IF ~EntryHas(documents, uri) THEN <<>>
            ELSE getSignatureHelpAt(symbolTable, offset, EntryGet(documents, uri), uri))

OnDefinition(uri, offset) ==
    Replies("textDocument/definition",
            IF ~EntryHas(documents, uri) THEN <<>>
            ELSE getDefinitionAt(symbolTable, offset, EntryGet(documents, uri), uri))

OnReferences(uri, offset) ==
    Replies("textDocument/references",
            IF ~EntryHas(documents, uri) THEN <<>>
            ELSE getReferencesAt(symbolTable, offset, EntryGet(documents, uri), uri))

\* a handler of rename that applies the new name to the symbol it finds
OnRenameRequestApplies(uri, offset, newName) ==
    /\ sPc = "listening"
    /\ EntryHas(documents, uri)
    /\ LET word == getWordAtOffset(offset, EntryGet(documents, uri))
       IN  /\ word.found
           /\ EntryHas(symbolTable.globalSymbols, word.word)
           /\ symbolTable' =
                  addGlobalSymbol(symbolTable,
                      [EntryGet(symbolTable.globalSymbols, word.word)
                          EXCEPT !.name = newName])
    /\ sReply' = [method |-> "textDocument/rename",
                  result |-> getRenameInfoAt(symbolTable, offset,
                                             EntryGet(documents, uri), uri, newName)]
    /\ UNCHANGED <<documents, sPc, sPending>>

OnRenameRequest(uri, offset, newName) ==
    Replies("textDocument/rename",
            IF ~EntryHas(documents, uri) THEN <<>>
            ELSE getRenameInfoAt(symbolTable, offset, EntryGet(documents, uri),
                                 uri, newName))

OnDocumentSymbol(uri) ==
    Replies("textDocument/documentSymbol",
            IF ~EntryHas(documents, uri) THEN <<>>
            ELSE getDocumentSymbols(symbolTable, EntryGet(documents, uri), uri))

OnWorkspaceSymbol(query) ==
    Replies("workspace/symbol", getWorkspaceSymbols(symbolTable, query))

\* the options of a formatting request
RequestOptions == [tabSize |-> 4, insertSpaces |-> TRUE]

\* the edits are the work of Formatter.format on the text and the ast, or
\* of the fallback on the text when parse or format throws; neither has the
\* symbol table, and the reply kept is what they are given
OnDocumentFormatting(uri) ==
    /\ sPc = "listening"
    /\ IF ~EntryHas(documents, uri)
       THEN /\ sReply' = [method |-> "textDocument/formatting", result |-> <<>>]
            /\ UNCHANGED parser
       ELSE LET Formatted(r) ==
                    /\ parser' = FieldsOf(r.s)
                    /\ sReply' =
                           [method |-> "textDocument/formatting",
                            result |-> <<[formatter |->
                                              IF \/ r.s.thrown # "none"
                                                 \/ format(RequestOptions,
                                                           EntryGet(documents, uri),
                                                           r.ast).thrown # "none"
                                              THEN "fallback" ELSE "Formatter",
                                          text |-> EntryGet(documents, uri),
                                          ast |-> r.ast]>>]
            IN  Formatted(parse(parser, EntryGet(documents, uri)))
    /\ UNCHANGED <<symbolTable, documents, sPc, sPending>>

OnSemanticTokens(uri) ==
    Replies("textDocument/semanticTokens/full",
            [data |-> IF ~EntryHas(documents, uri) THEN <<>>
                      ELSE getSemanticTokens(symbolTable, EntryGet(documents, uri), uri)])

OnPrepareCallHierarchy(uri, offset) ==
    Replies("callHierarchy/prepare",
            IF ~EntryHas(documents, uri) THEN <<>>
            ELSE getCallHierarchyItemsAt(symbolTable, offset,
                                         EntryGet(documents, uri), uri))

\* the item of the request is one the server prepared for the name
OnIncomingCalls(item) ==
    Replies("callHierarchy/incomingCalls", getIncomingCalls(symbolTable, item))

OnOutgoingCalls(item) ==
    Replies("callHierarchy/outgoingCalls", getOutgoingCalls(symbolTable, item))

\* the items a client holds: what prepare returns for the functions
CallHierarchyItems ==
    { [name |-> StdlibFunctions[i].name, kind |-> "Function", uri |-> StdlibUri,
       range |-> ZeroRange, selectionRange |-> ZeroRange] : i \in 1 .. 2 }

ServerInit ==
    ParserIdle /\ LexerIdle /\ AnalyzerIdle /\ ServerStart /\ FunctionIdle /\ DebugIdle

\* the server of a client without the configuration capability:
\* getDocumentSettings returns a resolved promise, so that the rest of a
\* suspended validateTextDocument runs, first suspended first, before the
\* next message is handled
NoneSuspended == sPending = <<>>

ServerNext ==
    \/ /\ NoneSuspended
       /\ LoadStdlib /\ UNCHANGED <<lexVars, parVars, anaVars, fnVars, dbgVars>>
    \/ /\ NoneSuspended
       /\ \E uri \in DocumentUris, text \in ServerTexts :
             /\ OnDidChangeContent(uri, text)
             /\ UNCHANGED <<lexVars, pSource, pAst, pPc, pCaught, pRecursed, pRef,
                            aUri, aPc, aIndex, aResult, aFresh, aRuns,
                            fnVars, dbgVars>>
    \/ /\ ValidateResume(1)
       /\ UNCHANGED <<lexVars, pSource, pAst, pPc, pCaught, pRecursed, pRef,
                      aUri, aPc, aIndex, aResult, aFresh, aRuns,
                      fnVars, dbgVars>>
    \/ /\ NoneSuspended
       /\ \E uri \in DocumentUris :
             OnDidClose(uri) /\ UNCHANGED <<lexVars, parVars, anaVars, fnVars, dbgVars>>
    \/ /\ NoneSuspended
       /\ /\ OnDidChangeConfiguration
          /\ UNCHANGED <<lexVars, pSource, pAst, pPc, pCaught, pRecursed, pRef,
                         aUri, aPc, aIndex, aResult, aFresh, aRuns,
                         fnVars, dbgVars>>
    \/ /\ NoneSuspended
       /\ \E uri \in DocumentUris : \E offset \in Offsets(uri) :
             OnCompletion(uri, offset) /\ UNCHANGED <<lexVars, parVars, anaVars, fnVars, dbgVars>>
    \/ /\ NoneSuspended
       /\ \E uri \in DocumentUris : \E offset \in Offsets(uri) :
             OnHover(uri, offset) /\ UNCHANGED <<lexVars, parVars, anaVars, fnVars, dbgVars>>
    \/ /\ NoneSuspended
       /\ \E uri \in DocumentUris : \E offset \in Offsets(uri) :
             OnSignatureHelp(uri, offset) /\ UNCHANGED <<lexVars, parVars, anaVars, fnVars, dbgVars>>
    \/ /\ NoneSuspended
       /\ \E uri \in DocumentUris : \E offset \in Offsets(uri) :
             OnDefinition(uri, offset) /\ UNCHANGED <<lexVars, parVars, anaVars, fnVars, dbgVars>>
    \/ /\ NoneSuspended
       /\ \E uri \in DocumentUris : \E offset \in Offsets(uri) :
             OnReferences(uri, offset) /\ UNCHANGED <<lexVars, parVars, anaVars, fnVars, dbgVars>>
    \/ /\ NoneSuspended
       /\ \E uri \in DocumentUris, newName \in NewNames : \E offset \in Offsets(uri) :
             OnRenameRequest(uri, offset, newName)
                 /\ UNCHANGED <<lexVars, parVars, anaVars, fnVars, dbgVars>>
    \/ /\ NoneSuspended
       /\ \E uri \in DocumentUris :
             OnDocumentSymbol(uri) /\ UNCHANGED <<lexVars, parVars, anaVars, fnVars, dbgVars>>
    \/ /\ NoneSuspended
       /\ \E query \in Queries :
             OnWorkspaceSymbol(query) /\ UNCHANGED <<lexVars, parVars, anaVars, fnVars, dbgVars>>
    \/ /\ NoneSuspended
       /\ \E uri \in DocumentUris :
             /\ OnDocumentFormatting(uri)
             /\ UNCHANGED <<lexVars, pSource, pAst, pPc, pCaught, pRecursed, pRef, anaVars,
                            fnVars, dbgVars>>
    \/ /\ NoneSuspended
       /\ \E uri \in DocumentUris :
             OnSemanticTokens(uri) /\ UNCHANGED <<lexVars, parVars, anaVars, fnVars, dbgVars>>
    \/ /\ NoneSuspended
       /\ \E uri \in DocumentUris : \E offset \in Offsets(uri) :
             OnPrepareCallHierarchy(uri, offset) /\ UNCHANGED <<lexVars, parVars, anaVars, fnVars, dbgVars>>
    \/ /\ NoneSuspended
       /\ \E item \in CallHierarchyItems :
             OnIncomingCalls(item) /\ UNCHANGED <<lexVars, parVars, anaVars, fnVars, dbgVars>>
    \/ /\ NoneSuspended
       /\ \E item \in CallHierarchyItems :
             OnOutgoingCalls(item) /\ UNCHANGED <<lexVars, parVars, anaVars, fnVars, dbgVars>>

SpecServer == ServerInit /\ [][ServerNext]_vars

(***************************************************************************)
(* Overlapping validations.  With the configuration capability the         *)
(* settings of a document are requested from the client, so that           *)
(* validateTextDocument stays suspended at its await while further         *)
(* messages are handled; the client answers the requests in any order.     *)
(***************************************************************************)
ValidationTexts ==
    { WordsOf(<<"let", "x", "=", "true", ";">>) \o <<"\n">>,
      WordsOf(<<"x", ";">>) \o <<"\n">> }

ValidationFrame ==
    UNCHANGED <<lexVars, pSource, pAst, pPc, pCaught, pRecursed, pRef,
                aUri, aPc, aIndex, aResult, aFresh, aRuns, fnVars, dbgVars>>

ValidationNext ==
    \/ LoadStdlib /\ UNCHANGED <<lexVars, parVars, anaVars, fnVars, dbgVars>>
    \/ \E uri \in DocumentUris, text \in ValidationTexts :
          OnDidChangeContent(uri, text) /\ ValidationFrame
    \/ \E uri \in DocumentUris :
          OnDidClose(uri) /\ UNCHANGED <<lexVars, parVars, anaVars, fnVars, dbgVars>>
    \/ OnDidChangeConfiguration /\ ValidationFrame
    \/ \E i \in 1 .. MaxPending : ValidateResume(i) /\ ValidationFrame

SpecValidation == ServerInit /\ [][ValidationNext]_vars

\* C29: whatever the interleaving of overlapping validateTextDocument
\* invocations, the diagnostics an invocation publishes are computed only from
\* the text it read: they are the diagnostics a parser and an analyzer that
\* served no other invocation compute from that text.
C29_DiagnosticsFromOwnText ==
    [][\A i \in 1 .. MaxPending :
          ValidateResume(i)
              => sReply'.result[1].diagnostics
                     = validateTextDocument(NewParser, NewAnalyzer, sPending[i].uri,
                                            sPending[i].text).diagnostics]_vars

-----------------------------------------------------------------------------
(* Claims about the lexer, checked under SpecLexer *)

TokenizeDone == lxPc = "done"

\* the 1-based source positions a token covers
TokenPositions(token) == (token.offset + 1) .. (token.offset + Len(token.value))

\* C7: the token stream tokenize returns ends with the EOF sentinel and holds
\* no other EOF token; for the empty source it is exactly one EOF token and
\* the error list is empty.
C7_EofSentinel ==
    TokenizeDone =>
        /\ lxTokens # <<>>
        /\ lxTokens[Len(lxTokens)].type = "eof"
        /\ \A i \in 1 .. Len(lxTokens) - 1 : lxTokens[i].type # "eof"
        /\ lexer.source = <<>> => (Len(lxTokens) = 1 /\ lexer.errors = <<>>)

\* C8: every nextToken call that returns a token other than EOF (a dropped
\* error token included) moves the scan position forward by at least one
\* character, and the scan position never passes the end of the source.
C8_ScanAdvances ==
    [][LexStep => /\ lxLast'.type # "eof" => lexer'.current > lexer.current
                  /\ lexer'.current <= Len(lexer'.source)]_vars

\* C8 happens: an unknown character was reported, dropped and skipped, and
\* the scan went on to the end of the source.
C8_Witness ==
    /\ TokenizeDone
    /\ lxLast.type = "error"
    /\ lexer.errors # <<>>
    /\ lexer.current = Len(lexer.source)
    /\ Len(lexer.source) >= 2

\* C9: when tokenize reports no error, the returned tokens are slices of the
\* source in source order and every character of the source that is not
\* whitespace belongs to exactly one of them.
C9_RoundTrip ==
    (TokenizeDone /\ lexer.errors = <<>>) =>
        /\ \A i \in 1 .. Len(lxTokens) :
              lxTokens[i].value =
                  SubSeq(lexer.source, lxTokens[i].offset + 1,
                         lxTokens[i].offset + Len(lxTokens[i].value))
        /\ \A i \in 1 .. Len(lxTokens) - 1 :
              lxTokens[i].offset + Len(lxTokens[i].value) <= lxTokens[i + 1].offset
        /\ \A p \in 1 .. Len(lexer.source) :
              ~isWhitespace(lexer.source[p]) =>
                  \E i \in 1 .. Len(lxTokens) : p \in TokenPositions(lxTokens[i])

\* C25: every lexeme the lexer drops has an entry in the error list: a
\* nextToken call whose token tokenize does not keep adds an error, so that
\* characters missing from the returned tokens come with a non-empty list.
C25_DroppedLexemeReported ==
    [][(LexStep /\ lxLast'.type # "eof" /\ ~TokenKept(lxLast'))
          => Len(lexer'.errors) > Len(lexer.errors)]_vars

\* the 1-based position of the first character at or after the scan
\* position that is not whitespace, 0 if there is none
NextLexemeStart ==
    LET rest == { p \in (lexer.current + 1) .. Len(lexer.source) :
                    ~isWhitespace(lexer.source[p]) }
    IN  IF rest = {} THEN 0 ELSE CHOOSE p \in rest : \A q \in rest : p <= q

\* no quote closes a string whose body starts at position j: every quote
\* from there on is escaped by a backslash
RECURSIVE Unclosed(_, _)
Unclosed(source, j) ==
    IF j > Len(source) THEN TRUE
    ELSE IF source[j] = "\"" THEN FALSE
    ELSE IF source[j] = "\\" THEN Unclosed(source, j + 2)
    ELSE Unclosed(source, j + 1)

\* C15: the step of tokenize that meets a double quote which no quote
\* closes before the end of the input appends exactly one error, with the
\* message 'Unterminated string literal', adds no token to the stream and
\* leaves the scan position at the end of the input.
C15_UnterminatedString ==
    [][LexStep =>
        LET q == NextLexemeStart
        IN  (q > 0 /\ lexer.source[q] = "\"" /\ Unclosed(lexer.source, q + 1)) =>
                /\ Len(lexer'.errors) = Len(lexer.errors) + 1
                /\ lexer'.errors[Len(lexer'.errors)].message = "Unterminated string literal"
                /\ SubSeq(lexer'.errors, 1, Len(lexer.errors)) = lexer.errors
                /\ lxTokens' = lxTokens
                /\ lexer'.current = Len(lexer.source)
    ]_vars

\* C15 happens: tokenize has returned for a source that ends in an
\* unterminated string literal after another token.
C15_Witness ==
    /\ TokenizeDone
    /\ lxLast.type = "error"
    /\ Len(lexer.errors) = 1
    /\ lexer.errors[1].message = "Unterminated string literal"
    /\ Len(lxTokens) = 1
    /\ lexer.current = Len(lexer.source)

-----------------------------------------------------------------------------
(* Claims about the parser, checked under SpecParser *)

\* the source ends inside a string literal that no quote closes
EndsInUnterminatedString(source) ==
    \E i \in 1 .. Len(source) :
        /\ source[i] = "\""
        /\ \A j \in (i + 1) .. Len(source) : source[j] \notin {"\"", "\n"}
        /\ \A j \in 1 .. (i - 1) : source[j] # "\""

\* C1: parse never throws: every call returns an (ast, errors) pair, and for
\* a source that ends in an unterminated string literal the returned error
\* list is not empty.
C1_ParseNeverThrows ==
    /\ pPc # "thrown"
    /\ (pPc = "returned" /\ EndsInUnterminatedString(pSource)) => parser.errors # <<>>

\* C2: no step of parse recurses without consuming a token: parsePrimary never
\* calls itself on the token it has just rejected, and no iteration of the
\* loop of parse ends by overflowing the call stack.
C2_NoConsumingFreeRecursion ==
    /\ pRecursed = 0
    /\ pCaught # "RangeError"

\* C10: a call of parse on a text the same Parser object has parsed before,
\* with any other calls of parse in between, ends as the first call on that
\* text did: the same AST (shapes and ranges) and the same error list.
C10_ParseIdempotent ==
    (pPc \in {"returned", "thrown"} /\ pRef # NoRef /\ pSource = pRef.source) =>
        ParseResult = pRef.result

\* C10 happens: a text that parses to a statement with diagnostics has been
\* parsed, then another text, then the first text again, and the last call
\* has returned.
C10_Witness ==
    /\ pPc = "returned"
    /\ pRef # NoRef
    /\ pRef.between /\ pRef.again
    /\ pSource = pRef.source
    /\ pAst # <<>>
    /\ parser.errors # <<>>

\* the expressions an expression node holds
ExpressionChildren(e) ==
    CASE e.kind = "binary" -> <<e.left, e.right>>
      [] e.kind = "unary" -> <<e.right>>
      [] e.kind = "call" -> <<e.left>> \o e.value
      [] e.kind = "parenthesized" -> <<e.value>>
      [] e.kind = "array" -> e.value
      [] e.kind = "member_access" -> <<e.left>>
      [] e.kind = "index_access" -> <<e.left, e.right>>
      [] OTHER -> <<>>

Within(inner, outer) == outer.start <= inner.start /\ inner.end <= outer.end

\* the range of every expression in e holds the ranges of its children; a
\* unary expression starts at its operator, before its operand, and a
\* parenthesized one starts at `(`, before the expression it holds, and
\* ends at `)`, after it
RECURSIVE RangesNest(_)
RangesNest(e) ==
    /\ \A i \in 1 .. Len(ExpressionChildren(e)) :
          /\ Within(ExpressionChildren(e)[i].range, e.range)
          /\ RangesNest(ExpressionChildren(e)[i])
    /\ e.kind = "unary" => e.range.start < e.right.range.start
    /\ e.kind = "parenthesized" =>
          /\ e.range.start < e.value.range.start
          /\ e.value.range.end < e.range.end

\* C16: in the AST of a source with no parse error, the range of a node
\* goes from its first token to its last, the operator of a unary
\* expression and the parentheses of a parenthesized one included, and the
\* range of a child lies within that of its parent.
C16_RangesSpanTokens ==
    (pPc = "returned" /\ parser.errors = <<>>) =>
        \A k \in 1 .. Len(pAst) :
            /\ (pAst[k].type = "statement" /\ pAst[k].kind = "expression") =>
                  /\ RangesNest(pAst[k].expression)
                  /\ Within(pAst[k].expression.range, pAst[k].range)
            /\ (pAst[k].type = "variable" /\ Defined(pAst[k].value)) =>
                  /\ RangesNest(pAst[k].value)
                  /\ Within(pAst[k].value.range, pAst[k].range)

\* C18: the declarations of the README's syntax reference, and a variable
\* declaration annotated with any primitive or built-in type name, parse
\* with an empty error list, and each annotation becomes a type expression
\* whose base name is the written type name.
C18_ReadmeDeclarationsParse ==
    (pPc \in {"returned", "thrown"} /\ pSource \in ReadmePrograms) =>
        /\ pPc = "returned"
        /\ parser.errors = <<>>
        /\ Len(pAst) = 1
        /\ \A name \in BuiltinTypeNames :
              pSource = AnnotatedLet(name) => pAst[1].varType.baseType = name
        /\ pSource = ReadmeLet => pAst[1].varType.baseType = <<"i", "n", "t">>
        /\ pSource = ReadmeConst => pAst[1].varType.baseType = <<"f", "l", "o", "a", "t">>
        /\ pSource = ReadmeFn =>
              /\ pAst[1].returnType.baseType = <<"i", "n", "t">>
              /\ Len(pAst[1].parameters) = 2
              /\ \A i \in 1 .. 2 : pAst[1].parameters[i].type.baseType = <<"i", "n", "t">>

-----------------------------------------------------------------------------
(* Claims about the analyzer and the type checker, checked under           *)
(* SpecAnalysis                                                            *)

AnalyzeDone == aPc = "done"

\* C3: for a program with no syntax, semantic or type violation, analyze
\* returns no diagnostic and checkTypes returns no error (here on instances
\* that have analyzed nothing before).
C3_ValidProgramsAreClean ==
    (AnalyzeDone /\ aRuns = 1 /\ pSource \in ValidPrograms) =>
        /\ aResult = <<>>
        /\ analyzer.typeChecker.errors = <<>>

\* C4: the diagnostics analyze returns for a document on instances that
\* have analyzed other documents before are those that newly constructed
\* instances return for it.
C4_NoStateSurvives == AnalyzeDone => aResult = aFresh

\* C5: a program whose one violation is one use of an undeclared name gets
\* exactly one diagnostic from the type checker.
C5_ErrorSuppression ==
    (AnalyzeDone /\ aRuns = 1 /\ pSource \in UndefinedUsePrograms) =>
        Len(analyzer.typeChecker.errors) = 1

\* the codes of the diagnostics for a name declared again
DuplicateCodes ==
    {"duplicate_function", "duplicate_struct", "duplicate_enum", "duplicate_variable"}

\* the keys of the entries of the symbol table, in order
SymbolKeys(A) == [i \in 1 .. Len(A.symbolTable) |-> A.symbolTable[i].key]

\* C6: after every step of the first pass the symbol table holds at most
\* one entry per key; a step for a declaration whose key is in the table
\* leaves the table as it is and appends exactly one diagnostic, a
\* duplicate-declaration one; a step for a declaration whose key is not in
\* the table enters it last.
C6_OneEntryPerName ==
    [][CollectStep =>
        LET node == pAst[aIndex]
            key == SymbolKey(aUri, node.name)
            last == analyzer'.errors[Len(analyzer'.errors)]
        IN  /\ \A i, j \in 1 .. Len(analyzer'.symbolTable) :
                  SymbolKeys(analyzer')[i] = SymbolKeys(analyzer')[j] => i = j
            /\ node.type \in {"function", "struct", "enum", "variable"} =>
                  IF SymbolHas(analyzer, key)
                  THEN /\ analyzer'.symbolTable = analyzer.symbolTable
                       /\ analyzer'.functionScopes = analyzer.functionScopes
                       /\ Len(analyzer'.errors) = Len(analyzer.errors) + 1
                       /\ SubSeq(analyzer'.errors, 1, Len(analyzer.errors)) = analyzer.errors
                       /\ last.code \in DuplicateCodes
                       /\ last.name = node.name
                  ELSE /\ SymbolKeys(analyzer') = Append(SymbolKeys(analyzer), key)
                       /\ \A i \in 1 .. Len(analyzer.symbolTable) :
                             analyzer'.symbolTable[i] = analyzer.symbolTable[i]
    ]_vars

\* C6 happens: the first pass has met a declaration of a name that an
\* earlier declaration of another kind had entered, and has reported it
\* with one diagnostic and nothing else.
C6_Witness ==
    /\ aPc = "collect"
    /\ aIndex = 3
    /\ Len(analyzer.symbolTable) = 1
    /\ analyzer.symbolTable[1].info.type = "variable"
    /\ pAst[2].type = "struct"
    /\ Len(analyzer.errors) = 1
    /\ analyzer.errors[1].code = "duplicate_struct"

\* the type checkTypes infers for an expression at the top level, with the
\* global context as analyze left it
TopLevelType(expr) ==
    Check("inferExpressionType", <<>>, GlobalContext(analyzer.typeChecker), expr).type

\* C11: for add(a: int, b: int) -> int with the body `return a + b;`,
\* followed by the call add(1, 2), checkTypes reports no error and the call
\* has the type int.
C11_AddCallIsClean ==
    (AnalyzeDone /\ aRuns = 1 /\ pAst = AddAst) =>
        /\ analyzer.typeChecker.errors = <<>>
        /\ TopLevelType(AddAst[2].expression) = createPrimitiveType("int")

\* the number of type errors with a message
TypeErrorCount(message) ==
    Cardinality({ i \in 1 .. Len(analyzer.typeChecker.errors) :
                    analyzer.typeChecker.errors[i].message = message })

\* C12: each `return;` in the body of a function whose declared return type
\* is not void gives exactly one 'Missing return value' type error, and a
\* `return;` in a function whose return type is void or omitted gives none.
C12_MissingReturnValue ==
    AnalyzeDone =>
        /\ \A p \in ReturnPrograms :
              pSource = p.text => TypeErrorCount("Missing return value") = p.missing
        /\ pAst = ReturnsNothingAst(<<"i", "n", "t">>) =>
              TypeErrorCount("Missing return value") = 1
        /\ pAst = ReturnsNothingAst(<<"v", "o", "i", "d">>) =>
              TypeErrorCount("Missing return value") = 0

\* C13: the break and continue statements that no for or while body
\* encloses, through if/else branches, match-case bodies and block
\* expressions, each give exactly one 'statement outside of loop' type
\* error and the enclosed ones give none; a top-level `break;` gives that
\* error as the only diagnostic.
C13_LoopExitOutsideLoop ==
    AnalyzeDone =>
        /\ \A p \in LoopExitPrograms :
              pSource = p.text => TypeErrorCount("statement outside of loop") = p.outside
        /\ pSource = Program(<<"break", ";">>) => Len(aResult) = 1

\* a name in UPPER_SNAKE_CASE: upper-case letters, digits and underscores
IsUpperSnakeCase(name) ==
    /\ name # <<>>
    /\ \A i \in 1 .. Len(name) : name[i] \in UpperChars \cup DigitChars \cup {"_"}

\* the diagnostics a step of analyze has appended
NewErrors == SubSeq(analyzer'.errors, Len(analyzer.errors) + 1, Len(analyzer'.errors))

\* C14: the step of the first pass for a variable declaration whose name is
\* not yet in the table: for `let X` it appends neither an
\* invalid_variable_name nor a duplicate_variable diagnostic; for a const
\* whose name is not UPPER_SNAKE_CASE it appends exactly one diagnostic,
\* with code const_naming_convention and severity Warning, and enters the
\* constant in the symbol table.
C14_NamingAtCollection ==
    [][CollectStep =>
        LET node == pAst[aIndex]
            key == SymbolKey(aUri, node.name)
        IN  (node.type = "variable" /\ ~SymbolHas(analyzer, key)) =>
                /\ (~node.isConst /\ node.name = <<"X">>) =>
                       \A i \in 1 .. Len(NewErrors) :
                           NewErrors[i].code \notin
                               {"invalid_variable_name", "duplicate_variable"}
                /\ (node.isConst /\ ~IsUpperSnakeCase(node.name)) =>
                       /\ Len(NewErrors) = 1
                       /\ NewErrors[1].code = "const_naming_convention"
                       /\ NewErrors[1].severity = SeverityWarning
                       /\ NewErrors[1].name = node.name
                       /\ SymbolHas(analyzer', key)
                       /\ analyzer'.symbolTable[Len(analyzer'.symbolTable)].info.isConst
    ]_vars

\* C14 happens: the first pass has collected `const x = 5;`, reported the
\* naming warning and entered the constant.
C14_Witness ==
    /\ aPc = "collect"
    /\ aIndex = 2
    /\ pSource = Program(<<"const", "x", "=", "5", ";">>)
    /\ Len(analyzer.errors) = 1
    /\ analyzer.errors[1].severity = SeverityWarning
    /\ Len(analyzer.symbolTable) = 1
    /\ analyzer.symbolTable[1].info.name = <<"x">>

\* the number of diagnostics analyze returned with a code
DiagnosticCount(code) ==
    Cardinality({ i \in 1 .. Len(aResult) : aResult[i].code = code })

\* C17: a type annotation whose base name is neither a primitive type nor a
\* struct or enum collected in the first pass gives an unknown_type error,
\* whether it is a parameter type, a return type, a field type, a variable
\* type, a generic argument or a generic constraint.
C17_UnknownTypeReported ==
    (AnalyzeDone /\ aRuns = 1 /\ pSource \in UnknownTypePrograms) =>
        /\ parser.errors = <<>>
        /\ DiagnosticCount("unknown_type") = 1

\* C19: a diagnostic analyze returns for a semantic error starts at the
\* line and the column of the source at which the offending declaration or
\* expression starts, in documents of one line and of more.
C19_DiagnosticPositions ==
    AnalyzeDone =>
        \A p \in PositionedPrograms :
            pSource = p.text =>
                /\ DiagnosticCount(p.code) = 1
                /\ \A i \in 1 .. Len(aResult) :
                      aResult[i].code = p.code =>
                          aResult[i].range.start =
                              [line |-> p.line, character |-> p.character]

-----------------------------------------------------------------------------
(* Claims about the server, checked under SpecServer *)

Listening == sPc = "listening"

\* C20: the standard library is loaded once, and it is read-only from then
\* on: once loadStdlib has run the server stays listening, and no handler
\* (validation, completion, hover, signature help, definition, references,
\* rename, document and workspace symbols, formatting, semantic tokens,
\* call hierarchy) adds, removes or changes an entry of the map of the
\* global symbols, which stays the map loadStdlib made of the empty table.
C20_StdlibReadOnly ==
    [][Listening =>
          /\ Listening'
          /\ symbolTable'.globalSymbols = symbolTable.globalSymbols
          /\ symbolTable.globalSymbols = loadStdlib(NewSymbolTable).globalSymbols]_vars

\* a rename request on the name of a standard library function was
\* answered with an edit of the symbol, after a document was validated
C20_Witness ==
    /\ Listening
    /\ symbolTable.globalSymbols # <<>>
    /\ documents # <<>>
    /\ parser.tokens # <<>>
    /\ sReply.method = "textDocument/rename"
    /\ sReply.result # <<>>
    /\ EntryHas(sReply.result[1].changes, StdlibUri)

-----------------------------------------------------------------------------
(* synchronize called on its own.  The token streams are the ones tokenize *)
(* returns for texts that end in a newline, so that each of them ends with *)
(* the EOF token; the cursor is at any token before the EOF token.         *)

SynchronizeLexemes ==
    { <<"a">>, <<";">>, <<"{">>, <<"l", "e", "t">>, <<"f", "n">>,
      <<"r", "e", "t", "u", "r", "n">> }

MaxSynchronizeLexemes == 3

SynchronizeSources ==
    { JoinLexemes(lexemes) \o <<"\n">> :
        lexemes \in SeqsUpTo(SynchronizeLexemes, MaxSynchronizeLexemes) \ {<<>>} }

\* the index of the EOF token of a token stream (0 when it has none)
EofIndex(tokens) ==
    IF \E i \in 1 .. Len(tokens) : tokens[i].type = "eof"
    THEN CHOOSE i \in 1 .. Len(tokens) :
            /\ tokens[i].type = "eof"
            /\ \A j \in 1 .. i - 1 : tokens[j].type # "eof"
    ELSE 0

SynchronizeArguments ==
    UNION { { [tokens |-> tokenize(source).tokens, current |-> current] :
                current \in 0 .. Len(tokenize(source).tokens) - 2 } :
            source \in SynchronizeSources }

SynchronizeInit ==
    /\ ParserIdle /\ LexerIdle /\ AnalyzerIdle /\ ServerStart /\ DebugIdle
    /\ fArgs \in SynchronizeArguments
    /\ fResult = <<>>
    /\ fPc = "called"

\* the call of synchronize by the catch clause of parse, and its return
SynchronizeCall ==
    /\ fPc = "called"
    /\ fResult' = synchronize([NewParserState(fArgs.tokens, <<>>)
                                  EXCEPT !.current = fArgs.current])
    /\ fPc' = "returned"
    /\ UNCHANGED fArgs

SynchronizeNext ==
    SynchronizeCall /\ UNCHANGED <<lexVars, parVars, anaVars, srvVars, dbgVars>>

SpecSynchronize == SynchronizeInit /\ [][SynchronizeNext]_vars

-----------------------------------------------------------------------------
(* Claims about synchronize.                                               *)

SynchronizeReturned == fPc = "returned" /\ "current" \in DOMAIN fArgs

\* C21: called with the cursor before the EOF token of a stream that ends
\* with one, synchronize returns, has consumed at least one token, has not
\* moved past the EOF token, and leaves the cursor at the EOF token, or just
\* after a semicolon, or just before fn, struct, enum, let, const, if, for,
\* while or return.
C21_SynchronizeStopsAtBoundary ==
    SynchronizeReturned =>
        /\ fResult.thrown = "none"
        /\ fResult.tokens = fArgs.tokens
        /\ fResult.current > fArgs.current
        /\ fResult.current < EofIndex(fArgs.tokens)
        /\ \/ isAtEnd(fResult)
           \/ previous(fResult).type = ";"
           \/ peek(fResult).type \in SynchronizeStops

\* synchronize skipped more than one token and stopped before a keyword
C21_Witness ==
    /\ SynchronizeReturned
    /\ fResult.current >= fArgs.current + 2
    /\ ~isAtEnd(fResult)
    /\ previous(fResult).type # ";"
    /\ peek(fResult).type \in SynchronizeStops

-----------------------------------------------------------------------------
(* parse called on its own on expression statements with two binary        *)
(* operators: a <first> b <second> c ;                                     *)

\* the level of parseAssignment, below the six levels of parseBinary
AssignmentLevel == 0

\* the operators of the ladder: their text and the level that matches them
LadderOperators ==
    { [text |-> <<"=">>, level |-> AssignmentLevel],
      [text |-> <<"+", "=">>, level |-> AssignmentLevel],
      [text |-> <<"-", "=">>, level |-> AssignmentLevel],
      [text |-> <<"*", "=">>, level |-> AssignmentLevel],
      [text |-> <<"/", "=">>, level |-> AssignmentLevel],
      [text |-> <<"%", "=">>, level |-> AssignmentLevel],
      [text |-> <<"|", "|">>, level |-> 1],
      [text |-> <<"&", "&">>, level |-> 2],
      [text |-> <<"=", "=">>, level |-> 3],
      [text |-> <<"!", "=">>, level |-> 3],
      [text |-> <<"<">>, level |-> 4],
      [text |-> <<"<", "=">>, level |-> 4],
      [text |-> <<">">>, level |-> 4],
      [text |-> <<">", "=">>, level |-> 4],
      [text |-> <<"+">>, level |-> 5],
      [text |-> <<"-">>, level |-> 5],
      [text |-> <<"*">>, level |-> 6],
      [text |-> <<"/">>, level |-> 6],
      [text |-> <<"%">>, level |-> 6] }

TwoOperatorSource(first, second) ==
    JoinLexemes(<< <<"a">>, first.text, <<"b">>, second.text, <<"c">>, <<";">> >>)
        \o <<"\n">>

PrecedenceArguments ==
    { [source |-> TwoOperatorSource(first, second), first |-> first, second |-> second] :
        first \in LadderOperators, second \in LadderOperators }

PrecedenceInit ==
    /\ ParserIdle /\ LexerIdle /\ AnalyzerIdle /\ ServerStart /\ DebugIdle
    /\ fArgs \in PrecedenceArguments
    /\ fResult = <<>>
    /\ fPc = "called"

\* parse(source) on a new Parser, and its return
PrecedenceCall ==
    /\ fPc = "called"
    /\ fResult' = parse(NewParser, fArgs.source)
    /\ fPc' = "returned"
    /\ UNCHANGED fArgs

PrecedenceNext ==
    PrecedenceCall /\ UNCHANGED <<lexVars, parVars, anaVars, srvVars, dbgVars>>

SpecPrecedence == PrecedenceInit /\ [][PrecedenceNext]_vars

-----------------------------------------------------------------------------
(* Claims about the precedence ladder.                                     *)

PrecedenceReturned == fPc = "returned" /\ "first" \in DOMAIN fArgs

IsOperand(e, name) == e.kind = "identifier" /\ e.value = <<name>>

\* (a first b) second c
GroupsLeft(e, first, second) ==
    /\ e.kind = "binary" /\ e.operator = second
    /\ e.left.kind = "binary" /\ e.left.operator = first
    /\ IsOperand(e.left.left, "a") /\ IsOperand(e.left.right, "b")
    /\ IsOperand(e.right, "c")

\* a first (b second c)
GroupsRight(e, first, second) ==
    /\ e.kind = "binary" /\ e.operator = first
    /\ IsOperand(e.left, "a")
    /\ e.right.kind = "binary" /\ e.right.operator = second
    /\ IsOperand(e.right.left, "b") /\ IsOperand(e.right.right, "c")

\* C22: a first b second c parses without an error into one expression
\* statement; the second operator takes b when it is of a higher level than
\* the first or when both are assignment operators, and the first operator
\* takes b otherwise (equal levels of binary operators group to the left).
C22_PrecedenceLadder ==
    PrecedenceReturned =>
        /\ fResult.s.thrown = "none"
        /\ fResult.s.errors = <<>>
        /\ Len(fResult.ast) = 1
        /\ fResult.ast[1].type = "statement"
        /\ fResult.ast[1].kind = "expression"
        /\ IF \/ fArgs.second.level > fArgs.first.level
              \/ (fArgs.first.level = AssignmentLevel
                    /\ fArgs.second.level = AssignmentLevel)
           THEN GroupsRight(fResult.ast[1].expression,
                            fArgs.first.text, fArgs.second.text)
           ELSE GroupsLeft(fResult.ast[1].expression,
                           fArgs.first.text, fArgs.second.text)

\* a = b += c was parsed as a = (b += c)
C22_Witness ==
    /\ PrecedenceReturned
    /\ fArgs.first.text = <<"=">>
    /\ fArgs.second.text = <<"+", "=">>
    /\ Len(fResult.ast) = 1
    /\ GroupsRight(fResult.ast[1].expression, <<"=">>, <<"+", "=">>)

-----------------------------------------------------------------------------
(* inferExpressionType called on its own on the literal node that parse    *)
(* builds for a one-literal expression statement.                          *)

MaxLiteralLen == 2

LiteralDigits == {"0", "1", "4", "7"}

LiteralCharacters == {"a", "1", " ", "."}

\* the literals by lexical shape: integers, floats, booleans, strings, chars
LiteralTexts ==
    { [text |-> digits, shape |-> "int"] :
        digits \in SeqsUpTo(LiteralDigits, MaxLiteralLen) \ {<<>>} }
    \cup { [text |-> <<whole, ".", fraction>>, shape |-> "float"] :
             whole \in LiteralDigits, fraction \in LiteralDigits }
    \cup { [text |-> Word(w), shape |-> "bool"] : w \in {"true", "false"} }
    \cup { [text |-> <<"\"">> \o characters \o <<"\"">>, shape |-> "string"] :
             characters \in SeqsUpTo(LiteralCharacters, MaxLiteralLen) }
    \cup { [text |-> <<"'", c, "'">>, shape |-> "char"] : c \in LiteralCharacters }

LiteralArguments ==
    { [source |-> literal.text \o <<" ", ";", "\n">>, text |-> literal.text,
       shape |-> literal.shape] : literal \in LiteralTexts }

LiteralInit ==
    /\ ParserIdle /\ LexerIdle /\ AnalyzerIdle /\ ServerStart /\ DebugIdle
    /\ fArgs \in LiteralArguments
    /\ fResult = <<>>
    /\ fPc = "called"

\* parse(source), then inferExpressionType on the expression of the
\* statement in the global context of a new TypeChecker
LiteralCall ==
    /\ fPc = "called"
    /\ LET Inferred(r) ==
               /\ r.s.thrown = "none"
               /\ Len(r.ast) = 1
               /\ r.ast[1].type = "statement"
               /\ r.ast[1].kind = "expression"
           Typed(r) ==
               [errors |-> r.s.errors, ast |-> r.ast,
                check |-> IF Inferred(r)
                          THEN Check("inferExpressionType", <<>>,
                                     GlobalContext(NewTypeChecker),
                                     r.ast[1].expression)
                          ELSE [errors |-> <<>>, type |-> NoType]]
       IN  fResult' = Typed(parse(NewParser, fArgs.source))
    /\ fPc' = "returned"
    /\ UNCHANGED fArgs

LiteralNext ==
    LiteralCall /\ UNCHANGED <<lexVars, parVars, anaVars, srvVars, dbgVars>>

SpecLiteral == LiteralInit /\ [][LiteralNext]_vars

-----------------------------------------------------------------------------
(* Claims about the types of literals.                                     *)

LiteralReturned == fPc = "returned" /\ "shape" \in DOMAIN fArgs

\* the statement parsed into one literal node whose value is the token text
LiteralParsed ==
    /\ LiteralReturned
    /\ fResult.errors = <<>>
    /\ Len(fResult.ast) = 1
    /\ fResult.ast[1].expression.kind = "literal"

\* C23: the type inferred for a literal node whose value is the text of the
\* token is the primitive type of the literal's lexical shape (int, float,
\* bool, string or char), and never the unknown type.
C23_LiteralTypeFromShape ==
    LiteralParsed =>
        /\ fResult.check.type = createPrimitiveType(fArgs.shape)
        /\ fResult.check.type # createUnknownType

-----------------------------------------------------------------------------
(* typesEqual called on its own on three Type objects.  A Type has a kind, *)
(* a name and the optional fields genericArgs, isReference and isMutable.  *)

MaxTypeArguments == 2

\* a Type object with the optional boolean fields it has
WithFlags(type, flags) ==
    [f \in DOMAIN type \cup DOMAIN flags |->
        IF f \in DOMAIN flags THEN flags[f] ELSE type[f]]

\* no flag, one flag or both
TypeFlags ==
    { <<>>, [isReference |-> TRUE], [isReference |-> FALSE], [isMutable |-> FALSE],
      [isReference |-> TRUE, isMutable |-> TRUE] }

\* Type objects without genericArgs
PlainTypes ==
    { WithFlags([kind |-> k.kind, name |-> k.name, genericArgs |-> NoList], flags) :
        k \in { [kind |-> "primitive", name |-> "int"],
                [kind |-> "primitive", name |-> "T"],
                [kind |-> "generic", name |-> "T"] },
        flags \in TypeFlags }

\* the generic arguments: int, and int with isReference
ArgumentTypes ==
    { createPrimitiveType("int"),
      WithFlags(createPrimitiveType("int"), [isReference |-> TRUE]) }

\* Type objects with genericArgs, an empty list included
AppliedTypes ==
    { WithFlags(createGenericType("T", arguments), flags) :
        arguments \in SeqsUpTo(ArgumentTypes, MaxTypeArguments),
        flags \in { <<>>, [isReference |-> TRUE] } }

\* a generic type as the argument of a generic type
NestedTypes ==
    { createGenericType("T", <<createGenericType("T", <<argument>>)>>) :
        argument \in ArgumentTypes }

EqualityTypes == PlainTypes \cup AppliedTypes \cup NestedTypes

EqualityArguments ==
    { [a |-> a, b |-> b, c |-> c] :
        a \in EqualityTypes, b \in EqualityTypes, c \in EqualityTypes }

EqualityInit ==
    /\ ParserIdle /\ LexerIdle /\ AnalyzerIdle /\ ServerStart /\ DebugIdle
    /\ fArgs \in EqualityArguments
    /\ fResult = <<>>
    /\ fPc = "called"

\* the calls typesEqual(a, a), (a, b), (b, a), (b, c) and (a, c)
EqualityCall ==
    /\ fPc = "called"
    /\ fResult' = [aa |-> typesEqual(fArgs.a, fArgs.a),
                   ab |-> typesEqual(fArgs.a, fArgs.b),
                   ba |-> typesEqual(fArgs.b, fArgs.a),
                   bc |-> typesEqual(fArgs.b, fArgs.c),
                   ac |-> typesEqual(fArgs.a, fArgs.c)]
    /\ fPc' = "returned"
    /\ UNCHANGED fArgs

EqualityNext ==
    EqualityCall /\ UNCHANGED <<lexVars, parVars, anaVars, srvVars, dbgVars>>

SpecEquality == EqualityInit /\ [][EqualityNext]_vars

-----------------------------------------------------------------------------
(* Claims about typesEqual.                                                *)

EqualityReturned == fPc = "returned" /\ "c" \in DOMAIN fArgs

\* the generic argument lists: both absent, or both present, of equal
\* length and made of the same Type objects position by position
SameGenericArgs(a, b) ==
    /\ a.genericArgs.defined = b.genericArgs.defined
    /\ Len(a.genericArgs.items) = Len(b.genericArgs.items)
    /\ \A i \in 1 .. Len(a.genericArgs.items) :
          a.genericArgs.items[i] = b.genericArgs.items[i]

\* C24: typesEqual(a, b) is true exactly when a and b have the same kind,
\* name, isReference and isMutable and generic argument lists of equal
\* length whose arguments are equal position by position; it is reflexive,
\* symmetric and transitive.
C24_TypesEqualIsEquivalence ==
    EqualityReturned =>
        /\ fResult.ab <=>
              /\ fArgs.a.kind = fArgs.b.kind
              /\ fArgs.a.name = fArgs.b.name
              /\ Flag(fArgs.a, "isReference") = Flag(fArgs.b, "isReference")
              /\ Flag(fArgs.a, "isMutable") = Flag(fArgs.b, "isMutable")
              /\ SameGenericArgs(fArgs.a, fArgs.b)
        /\ fResult.aa
        /\ fResult.ab <=> fResult.ba
        /\ (fResult.ab /\ fResult.bc) => fResult.ac

\* two different objects of the same generic type with a reference argument
\* were found equal to each other and different from a third that has the
\* argument without isReference
C24_Witness ==
    /\ EqualityReturned
    /\ fArgs.a.genericArgs.defined
    /\ Len(fArgs.a.genericArgs.items) = MaxTypeArguments
    /\ Len(fArgs.c.genericArgs.items) = MaxTypeArguments
    /\ "isReference" \in DOMAIN fArgs.a.genericArgs.items[1]
    /\ "isReference" \notin DOMAIN fArgs.c.genericArgs.items[1]
    /\ fArgs.a.genericArgs.items[2] = fArgs.c.genericArgs.items[2]
    /\ Flag(fArgs.a, "isReference") = Flag(fArgs.c, "isReference")
    /\ fResult.ab /\ fResult.ba /\ ~fResult.bc /\ ~fResult.ac

-----------------------------------------------------------------------------
(* parse called on its own on a text and on the same text with a comment   *)
(* inserted between two of its tokens.                                     *)

\* texts that parse without an error
CommentBases ==
    { Program(<<"a", ";">>), Program(<<"a", "+", "1", ";">>),
      Program(<<"let", "x", "=", "1", ";">>), Program(<<"(", "a", ")", ";">>),
      Program(<<"a", "=", "-", "1", ";">>), Program(<<"f", "(", "a", ")", ";">>),
      Program(<<"a", ";", "b", ";">>),
      Program(<<"fn", "f", "(", ")", "{", "a", ";", "}">>),
      Program(<<"while", "(", "a", ")", "{", "a", ";", "}">>) }

\* a line comment, a block comment and a nested block comment
CommentTexts ==
    { <<"/", "/", " ", "c", "\n">>,
      <<"/", "*", " ", "c", " ", "*", "/">>,
      <<"/", "*", " ", "/", "*", " ", "c", " ", "*", "/", " ", "*", "/">> }

\* the text with the comment put after the blank of index gap
WithComment(source, gap, comment) ==
    SubSeq(source, 1, gap) \o comment \o <<" ">> \o SubSeq(source, gap + 1, Len(source))

\* the words of a text are separated by one blank each: the gaps between
\* two tokens are the blanks
CommentArguments ==
    UNION { { [source |-> source, comment |-> comment,
               commented |-> WithComment(source, gap, comment)] :
                gap \in { i \in 1 .. Len(source) : source[i] = " " },
                comment \in CommentTexts } :
            source \in CommentBases }

CommentInit ==
    /\ ParserIdle /\ LexerIdle /\ AnalyzerIdle /\ ServerStart /\ DebugIdle
    /\ fArgs \in CommentArguments
    /\ fResult = <<>>
    /\ fPc = "called"

\* parse of the text, and parse of the text with the comment
CommentCall ==
    /\ fPc = "called"
    /\ fResult' =
          [plain |-> parse(NewParser, fArgs.source),
           commented |-> parse(NewParser, fArgs.commented)]
    /\ fPc' = "returned"
    /\ UNCHANGED fArgs

CommentNext ==
    CommentCall /\ UNCHANGED <<lexVars, parVars, anaVars, srvVars, dbgVars>>

SpecComment == CommentInit /\ [][CommentNext]_vars

-----------------------------------------------------------------------------
(* Claims about comments.                                                  *)

CommentReturned == fPc = "returned" /\ "comment" \in DOMAIN fArgs

\* the kinds of the top-level nodes, in order
TopLevelKinds(ast) ==
    [i \in 1 .. Len(ast) |->
        <<ast[i].type, IF "kind" \in DOMAIN ast[i] THEN ast[i].kind ELSE "">>]

\* C26: when a text parses without error, the same text with a line comment
\* or a (possibly nested) block comment between two of its tokens parses
\* without error too, into the same top-level nodes.
C26_CommentsAreTransparent ==
    (CommentReturned /\ fResult.plain.s.thrown = "none"
        /\ fResult.plain.s.errors = <<>>) =>
        /\ fResult.commented.s.thrown = "none"
        /\ fResult.commented.s.errors = <<>>
        /\ TopLevelKinds(fResult.commented.ast) = TopLevelKinds(fResult.plain.ast)

-----------------------------------------------------------------------------
(* checkTypes called on its own on a declaration without a type annotation *)
(* (let x = <expression> ;) and on the expression statement made of the    *)
(* same expression (<expression> ;).                                       *)

\* the operands: an undeclared variable and literals
InitializerOperands == { <<"a">>, <<"1">>, <<"true">>, <<"\"", "s", "\"">> }

InitializerOperators == { <<"+">>, <<"&&">>, <<"==">>, <<"<">> }

\* the expressions, as lists of words
InitializerExpressions ==
    InitializerOperands
    \cup { <<sign>> \o operand :
             sign \in {"-", "!"}, operand \in InitializerOperands }
    \cup { left \o operator \o right :
             left \in InitializerOperands, operator \in InitializerOperators,
             right \in InitializerOperands }
    \cup { <<"f", "(">> \o operand \o <<")">> : operand \in InitializerOperands }

InitializerArguments ==
    { [expression |-> WordsOf(words) \o <<" ", ";", "\n">>,
       declaration |-> WordsOf(<<"let", "x", "=">> \o words) \o <<" ", ";", "\n">>] :
        words \in InitializerExpressions }

InitializerInit ==
    /\ ParserIdle /\ LexerIdle /\ AnalyzerIdle /\ ServerStart /\ DebugIdle
    /\ fArgs \in InitializerArguments
    /\ fResult = <<>>
    /\ fPc = "called"

\* parse and checkTypes of each of the two texts, on new objects
InitializerCall ==
    /\ fPc = "called"
    /\ LET Checked(r) ==
               [thrown |-> r.s.thrown, parseErrors |-> r.s.errors, ast |-> r.ast,
                errors |-> checkTypes(NewTypeChecker, r.ast).errors]
       IN  fResult' = [stated |-> Checked(parse(NewParser, fArgs.expression)),
                       declared |-> Checked(parse(NewParser, fArgs.declaration))]
    /\ fPc' = "returned"
    /\ UNCHANGED fArgs

InitializerNext ==
    InitializerCall /\ UNCHANGED <<lexVars, parVars, anaVars, srvVars, dbgVars>>

SpecInitializer == InitializerInit /\ [][InitializerNext]_vars

-----------------------------------------------------------------------------
(* Claims about the diagnostics of initializers.                           *)

InitializerReturned == fPc = "returned" /\ "declaration" \in DOMAIN fArgs

\* both texts parsed without error into one node each
InitializerParsed ==
    /\ InitializerReturned
    /\ fResult.stated.thrown = "none" /\ fResult.stated.parseErrors = <<>>
    /\ Len(fResult.stated.ast) = 1
    /\ fResult.declared.thrown = "none" /\ fResult.declared.parseErrors = <<>>
    /\ Len(fResult.declared.ast) = 1
    /\ fResult.declared.ast[1].type = "variable"

\* the messages of a list of type errors, in order
ErrorMessages(errors) ==
    [i \in 1 .. Len(errors) |-> <<errors[i].message, errors[i].names>>]

\* C27: for a declaration without a type annotation, the type errors
\* reported for the initializer are those reported when the same expression
\* is checked once as an expression statement: each fault is reported once.
C27_InitializerCheckedOnce ==
    InitializerParsed =>
        ErrorMessages(fResult.declared.errors) = ErrorMessages(fResult.stated.errors)

-----------------------------------------------------------------------------
(* Formatter.format called on its own on the ast that parse returns for a  *)
(* text, with the options of a formatting request.                         *)

FormatSources ==
    {
\* let x = 1;
      <<"l", "e", "t", " ", "x", " ", "=", " ", "1", ";", "\n">>,
\* const PI: T = 3;
      <<"c", "o", "n", "s", "t", " ", "P", "I", ":", " ", "T", " ", "=",
        " ", "3", ";", "\n">>,
\* fn f() { let x = 1; }
      <<"f", "n", " ", "f", "(", ")", " ", "{", " ", "l", "e", "t", " ",
        "x", " ", "=", " ", "1", ";", " ", "}", "\n">>,
\* fn f() { a; }
      <<"f", "n", " ", "f", "(", ")", " ", "{", " ", "a", ";", " ", "}",
        "\n">>,
\* fn add(a: T, b: T) -> T { return a + b; }
      <<"f", "n", " ", "a", "d", "d", "(", "a", ":", " ", "T", ",", " ",
        "b", ":", " ", "T", ")", " ", "-", ">", " ", "T", " ", "{", " ",
        "r", "e", "t", "u", "r", "n", " ", "a", " ", "+", " ", "b", ";",
        " ", "}", "\n">>,
\* import m;
      <<"i", "m", "p", "o", "r", "t", " ", "m", ";", "\n">>,
\* import m::n;
      <<"i", "m", "p", "o", "r", "t", " ", "m", ":", ":", "n", ";", "\n">>,
\* trait T { }
      <<"t", "r", "a", "i", "t", " ", "T", " ", "{", " ", "}", "\n">>,
\* impl T of S { } (the word after the trait has to lex as an identifier)
      <<"i", "m", "p", "l", " ", "T", " ", "o", "f", " ", "S", " ", "{",
        " ", "}", "\n">>,
\* mod m { a; }
      <<"m", "o", "d", " ", "m", " ", "{", " ", "a", ";", " ", "}", "\n">>,
\* struct P { x: T, y: U }
      <<"s", "t", "r", "u", "c", "t", " ", "P", " ", "{", " ", "x", ":",
        " ", "T", ",", " ", "y", ":", " ", "U", " ", "}", "\n">>,
\* enum E { A, B }
      <<"e", "n", "u", "m", " ", "E", " ", "{", " ", "A", ",", " ", "B",
        " ", "}", "\n">>,
\* if (a) { b; } else { c; }
      <<"i", "f", " ", "(", "a", ")", " ", "{", " ", "b", ";", " ", "}",
        " ", "e", "l", "s", "e", " ", "{", " ", "c", ";", " ", "}", "\n">>,
\* while (a) { b; }
      <<"w", "h", "i", "l", "e", " ", "(", "a", ")", " ", "{", " ", "b",
        ";", " ", "}", "\n">>,
\* for i in a { b; }
      <<"f", "o", "r", " ", "i", " ", "i", "n", " ", "a", " ", "{", " ",
        "b", ";", " ", "}", "\n">>,
\* match a { b -> { c; } }
      <<"m", "a", "t", "c", "h", " ", "a", " ", "{", " ", "b", " ", "-",
        ">", " ", "{", " ", "c", ";", " ", "}", " ", "}", "\n">>,
\* a;
      <<"a", ";", "\n">>,
\* f(a, 1);
      <<"f", "(", "a", ",", " ", "1", ")", ";", "\n">>,
\* a.b;
      <<"a", ".", "b", ";", "\n">>,
\* a[1];
      <<"a", "[", "1", "]", ";", "\n">>,
\* (a);
      <<"(", "a", ")", ";", "\n">>,
\* [a, b];
      <<"[", "a", ",", " ", "b", "]", ";", "\n">>,
\* -a;
      <<"-", "a", ";", "\n">>,
\* a = b + c;
      <<"a", " ", "=", " ", "b", " ", "+", " ", "c", ";", "\n">>,
\* return a;
      <<"r", "e", "t", "u", "r", "n", " ", "a", ";", "\n">>,
\* fn f() { while (a) { break; } }
      <<"f", "n", " ", "f", "(", ")", " ", "{", " ", "w", "h", "i", "l",
        "e", " ", "(", "a", ")", " ", "{", " ", "b", "r", "e", "a", "k",
        ";", " ", "}", " ", "}", "\n">>,
\* fn f() { if (a) { let y = 2; } }
      <<"f", "n", " ", "f", "(", ")", " ", "{", " ", "i", "f", " ", "(",
        "a", ")", " ", "{", " ", "l", "e", "t", " ", "y", " ", "=", " ",
        "2", ";", " ", "}", " ", "}", "\n">>,
\* fn f() { struct Q { z: T } }
      <<"f", "n", " ", "f", "(", ")", " ", "{", " ", "s", "t", "r", "u",
        "c", "t", " ", "Q", " ", "{", " ", "z", ":", " ", "T", " ", "}",
        " ", "}", "\n">>
    }

\* the options of the request: spaces of width 2 or 4, or tabs
TabSizes == {2, 4}

FormatOptions ==
    { [tabSize |-> size, insertSpaces |-> TRUE] : size \in TabSizes }
    \cup { [tabSize |-> size, insertSpaces |-> FALSE] : size \in TabSizes }

FormatArguments ==
    { [source |-> source, options |-> options] :
        source \in FormatSources, options \in FormatOptions }

FormatInit ==
    /\ ParserIdle /\ LexerIdle /\ AnalyzerIdle /\ ServerStart /\ DebugIdle
    /\ fArgs \in FormatArguments
    /\ fResult = <<>>
    /\ fPc = "called"

\* parser.parse(text), then new Formatter(options).format(text, ast), as in
\* the formatting handler of the server
FormatCall ==
    /\ fPc = "called"
    /\ LET Formatted(r) ==
               [thrown |-> r.s.thrown, parseErrors |-> r.s.errors, ast |-> r.ast,
                tokens |-> r.s.tokens,
                formatted |-> format(fArgs.options, fArgs.source, r.ast)]
       IN  fResult' = Formatted(parse(NewParser, fArgs.source))
    /\ fPc' = "returned"
    /\ UNCHANGED fArgs

FormatNext ==
    FormatCall /\ UNCHANGED <<lexVars, parVars, anaVars, srvVars, dbgVars>>

SpecFormat == FormatInit /\ [][FormatNext]_vars

-----------------------------------------------------------------------------
(* Claims about the formatter.                                             *)

FormatReturned == fPc = "returned" /\ "options" \in DOMAIN fArgs

\* the text was parsed without an error
FormatParsed ==
    /\ FormatReturned
    /\ fResult.thrown = "none"
    /\ fResult.parseErrors = <<>>
    /\ fResult.ast # <<>>

\* whether a text has a piece as a substring
Contains(text, piece) ==
    \E i \in 0 .. Len(text) - Len(piece) : SubSeq(text, i + 1, i + Len(piece)) = piece

\* the names and literals of the text: what a rendering of its nodes shows
NamesOf(tokens) ==
    { tokens[i].value : i \in { j \in 1 .. Len(tokens) :
        tokens[j].type \in {"identifier", "integer_literal", "float_literal"} } }

\* C28: for an ast parsed without an error, format returns normally and its
\* one edit replaces the text with a rendering of every top-level node and
\* of every statement of a body, so that every name and literal of the text
\* is in the new text.
C28_FormatRendersEveryNode ==
    FormatParsed =>
        /\ fResult.formatted.thrown = "none"
        /\ Len(fResult.formatted.edits) = 1
        /\ \A name \in NamesOf(fResult.tokens) :
              Contains(fResult.formatted.edits[1].newText, name)

(***************************************************************************)
(* The debug session (VextLangDebugSession).  dSession holds the fields of *)
(* the session: debugProcess is 0 for undefined, else the index in         *)
(* dProcesses of the ChildProcess it refers to.  dProcesses holds every    *)
(* spawned process, its state and what was written to its stdin; dSent     *)
(* holds the responses and events the session sent, in order.              *)
(***************************************************************************)
MaxSent == 5

StepCommands == {"continue", "next", "step-in", "step-out", "pause"}

\* args of a launch request: options the spawn accepts or throws on
LaunchArguments ==
    { [program |-> "", options |-> "valid"],
      [program |-> "p", options |-> "valid"],
      [program |-> "p", options |-> "invalid"] }

Response(command) == [type |-> "response", command |-> command, success |-> TRUE]

ErrorResponse(command, id) ==
    [type |-> "response", command |-> command, success |-> FALSE, id |-> id]

Event(event) == [type |-> "event", event |-> event]

spawn == [state |-> "running", stdin |-> <<>>]

launchRequest(args) ==
    /\ Len(dSent) + 2 <= MaxSent
    /\ IF args.program = ""
       THEN /\ dSent' = Append(dSent, ErrorResponse("launch", 3000))
            /\ UNCHANGED <<dSession, dProcesses>>
       ELSE IF args.options = "invalid"
       THEN /\ dSent' = Append(dSent, ErrorResponse("launch", 3001))
            /\ UNCHANGED <<dSession, dProcesses>>
       ELSE /\ dProcesses' = Append(dProcesses, spawn)
            /\ dSession' = [dSession EXCEPT !.debugProcess = Len(dProcesses) + 1]
            /\ dSent' = dSent \o <<Event("initialized"), Response("launch")>>

\* the 'close' event of a spawned process
ProcessClose(p) ==
    /\ Len(dSent) < MaxSent
    /\ p \in 1 .. Len(dProcesses)
    /\ dProcesses[p].state # "closed"
    /\ dProcesses' = [dProcesses EXCEPT ![p].state = "closed"]
    /\ dSent' = Append(dSent, Event("terminated"))
    /\ UNCHANGED dSession

\* the 'error' event of a spawned process
ProcessError(p) ==
    /\ Len(dSent) + 2 <= MaxSent
    /\ p \in 1 .. Len(dProcesses)
    /\ dProcesses[p].state = "running"
    /\ dProcesses' = [dProcesses EXCEPT ![p].state = "errored"]
    /\ dSent' = dSent \o <<Event("output"), Event("terminated")>>
    /\ UNCHANGED dSession

kill(process) ==
    IF process.state = "running" THEN [process EXCEPT !.state = "killed"] ELSE process

disconnectRequest ==
    /\ Len(dSent) < MaxSent
    /\ IF dSession.debugProcess # 0
       THEN /\ dProcesses' = [dProcesses EXCEPT ![dSession.debugProcess] = kill(@)]
            /\ dSession' = [dSession EXCEPT !.debugProcess = 0]
       ELSE UNCHANGED <<dSession, dProcesses>>
    /\ dSent' = Append(dSent, Response("disconnect"))

\* the body shared by the five stepping requests
StepRequest(command) ==
    /\ Len(dSent) < MaxSent
    /\ IF dSession.debugProcess # 0
       THEN dProcesses' = [dProcesses EXCEPT ![dSession.debugProcess].stdin =
                               Append(@, <<command, "\n">>)]
       ELSE UNCHANGED dProcesses
    /\ dSent' = Append(dSent, Response(command))
    /\ UNCHANGED dSession

continueRequest == StepRequest("continue")

nextRequest == StepRequest("next")

stepInRequest == StepRequest("step-in")

stepOutRequest == StepRequest("step-out")

pauseRequest == StepRequest("pause")

DebugInit ==
    ParserIdle /\ LexerIdle /\ AnalyzerIdle /\ ServerStart /\ FunctionIdle /\ DebugIdle

DebugFrame == UNCHANGED <<lexVars, parVars, anaVars, srvVars, fnVars>>

DebugNext ==
    \/ \E args \in LaunchArguments : launchRequest(args) /\ DebugFrame
    \/ \E p \in 1 .. MaxSent : ProcessClose(p) /\ DebugFrame
    \/ \E p \in 1 .. MaxSent : ProcessError(p) /\ DebugFrame
    \/ disconnectRequest /\ DebugFrame
    \/ continueRequest /\ DebugFrame
    \/ nextRequest /\ DebugFrame
    \/ stepInRequest /\ DebugFrame
    \/ stepOutRequest /\ DebugFrame
    \/ pauseRequest /\ DebugFrame

SpecDebug == DebugInit /\ [][DebugNext]_vars

\* C30: a stepping request (continue, next, step-in, step-out, pause) gets
\* its response, and it writes its command to the stdin of a debug process
\* only while that process is running: not after its 'close' or 'error', and
\* not after a disconnect request.
C30_StepsOnlyWhileRunning ==
    [][\A command \in StepCommands :
          StepRequest(command)
              => /\ dSent' = Append(dSent, Response(command))
                 /\ \A p \in 1 .. Len(dProcesses) :
                       dProcesses'[p].stdin # dProcesses[p].stdin
                           => dProcesses[p].state = "running"]_vars


=============================================================================
